---- MODULE Spec2Model ----
(***************************************************************************)
(* Portfolio accounting and order execution engine of AITradeGame:         *)
(* TradingEngine (trading_engine.py) on top of the ledger kept by Database *)
(* (database.py) and the session calendar of MarketCalendar                *)
(* (market_calendar.py).                                                   *)
(*                                                                         *)
(* Money, prices and quantities are Python floats in the source.  They are *)
(* modelled as exact rationals <<numerator, denominator>> in lowest terms  *)
(* (denominator > 0), so every identity below is the exact-arithmetic      *)
(* identity; <<0, 0>> stands for Python's None.                            *)
(***************************************************************************)
EXTENDS Integers, Sequences, FiniteSets, TLC

(***************************************************************************)
(* Exact arithmetic                                                        *)
(***************************************************************************)
None == <<0, 0>>

Abs(x) == IF x < 0 THEN -x ELSE x

\* The operations are functions of their operands, so that an operand is
\* evaluated once.
Pairs == Int \X Int

gcd_f[a \in Nat, b \in Nat] == IF b = 0 THEN a ELSE gcd_f[b, a % b]

GCD(a, b) == gcd_f[a, b]

norm_f[n \in Int, d \in Int] == <<n \div gcd_f[Abs(n), d], d \div gcd_f[Abs(n), d]>>

Norm(n, d) == norm_f[n, d]

R(i) == <<i, 1>>

Frac(n, d) == Norm(n, d)

radd_f[a \in Pairs, b \in Pairs] ==
    LET g == gcd_f[a[2], b[2]]
    IN  norm_f[a[1] * (b[2] \div g) + b[1] * (a[2] \div g), (a[2] \div g) * b[2]]

RAdd(a, b) == radd_f[a, b]

RNeg(a) == <<-a[1], a[2]>>

RSub(a, b) == RAdd(a, RNeg(b))

rmul_f[a \in Pairs, b \in Pairs] ==
    LET g1 == gcd_f[Abs(a[1]), b[2]]
        g2 == gcd_f[Abs(b[1]), a[2]]
    IN  <<(a[1] \div g1) * (b[1] \div g2), (a[2] \div g2) * (b[2] \div g1)>>

RMul(a, b) == rmul_f[a, b]

rinv_f[a \in Pairs] == IF a[1] > 0 THEN <<a[2], a[1]>> ELSE <<-a[2], -a[1]>>

RInv(a) == rinv_f[a]

RDiv(a, b) == RMul(a, RInv(b))

rlt_f[a \in Pairs, b \in Pairs] ==
    LET g == gcd_f[a[2], b[2]]
    IN  a[1] * (b[2] \div g) < b[1] * (a[2] \div g)

RLt(a, b) == rlt_f[a, b]

RLe(a, b) == ~RLt(b, a)

RMax(a, b) == IF RLt(a, b) THEN b ELSE a

RAbs(a) == <<Abs(a[1]), a[2]>>

IsInt(a) == a[2] = 1

\* Python's round(x) to an int: nearest integer, ties to the even one.
round_f[a \in Pairs] ==
    LET fl == a[1] \div a[2]
        twice == 2 * (a[1] - fl * a[2])
    IN  IF twice < a[2] THEN fl
        ELSE IF twice > a[2] THEN fl + 1
        ELSE IF fl % 2 = 0 THEN fl ELSE fl + 1

Round(a) == round_f[a]

RECURSIVE RSum(_)
RSum(s) == IF s = <<>> THEN R(0) ELSE RAdd(Head(s), RSum(Tail(s)))

RECURSIVE SetToSeq(_)
SetToSeq(S) ==
    IF S = {} THEN <<>>
    ELSE LET x == CHOOSE y \in S : TRUE IN <<x>> \o SetToSeq(S \ {x})

(***************************************************************************)
(* Bounds of the model                                                     *)
(***************************************************************************)
MaxTrades == 3
MaxCryptoTrades == 2
MaxDay == 1
MaxSharedTrades == 3
MaxSideTrades == 3
MaxWriteFailures == 1
MaxIterations == 2
MaxLoopTrades == 1
MaxFromDate == 175

(***************************************************************************)
(* Configuration                                                           *)
(***************************************************************************)
\* initial_capital of table models (its DEFAULT).
InitialCapital == 10000

\* initial_capital of a model created through the API with no capital given.
ApiInitialCapital == 100000

\* Model 1 trades crypto and model 2 A-shares, both on the table's default
\* capital; model 3 trades A-shares on the API's default capital.
Models == {1, 2, 3, 4, 5, 6}

\* The model whose rows a caller of execute_trading_cycle reads and writes:
\* 6 is a second caller of the engine of model 5 (the manual execute
\* endpoint beside the scheduler loop); every other index is a model with
\* one caller.
Owner(m) == IF m = 6 THEN 5 ELSE m

DefaultModels == {1, 2}

\* initial_capital of the model's row.
initial_capital(model_id) == IF model_id = 3 THEN ApiInitialCapital ELSE InitialCapital

MarketType(m) == IF m \in {1, 4} THEN "crypto" ELSE "a_share"

Instruments(m) == IF MarketType(m) = "a_share" THEN {"600519.SH"} ELSE {"BTC"}

AllInstruments == UNION {Instruments(m) : m \in Models}

TRADE_FEE_RATE == Frac(1, 1000)
commission_rate == Frac(3, 10000)
commission_min == R(5)
transfer_rate == Frac(1, 100000)
stamp_duty_rate == Frac(1, 1000)
lot_size == 100
lot_step == 100
price_limit_tolerance == R(0)
QuantityTolerance == Frac(1, 10000)

(***************************************************************************)
(* Trading calendar.  Day 0 is Thursday 2025-04-24; day 3 is Sunday        *)
(* 2025-04-27, a compensatory workday; days 7 and 8 are the holidays       *)
(* 2025-05-01 and 2025-05-02; days 160 to 162, 165 and 166 are the         *)
(* holidays 2025-10-01 to 03, 06 and 07; days 157 and 170 are the          *)
(* compensatory workdays 2025-09-28 and 2025-10-11.  The clock `now` runs  *)
(* through the instants ClockTimes (local time, hhmm) of each day in turn. *)
(***************************************************************************)
NoDate == -1
BaseWeekday == 3
A_SHARE_DEFAULT_HOLIDAYS == {7, 8, 160, 161, 162, 165, 166}
A_SHARE_COMPENSATORY_WORKDAYS == {3, 157, 170}
MORNING_OPEN == 930
MORNING_CLOSE == 1130
AFTERNOON_OPEN == 1300
AFTERNOON_CLOSE == 1500
ClockTimes == <<1000, 1600>>

weekday(d) == (BaseWeekday + d) % 7

is_a_share_trading_day(d) ==
    IF d \in A_SHARE_COMPENSATORY_WORKDAYS THEN TRUE
    ELSE IF d \in A_SHARE_DEFAULT_HOLIDAYS THEN FALSE
    ELSE weekday(d) < 5

\* The next calendar day, whatever the market.
next_trading_day_calendar_day(market, from_date) == from_date + 1

RECURSIVE next_trading_day(_, _)
next_trading_day(market, from_date) ==
    IF market # "a_share" THEN from_date + 1
    ELSE IF is_a_share_trading_day(from_date + 1) THEN from_date + 1
    ELSE next_trading_day(market, from_date + 1)

next_sellable_date(market, trade_date) ==
    IF market # "a_share" THEN trade_date ELSE next_trading_day("a_share", trade_date)

DayOf(t) == t \div Len(ClockTimes)
TimeOf(t) == ClockTimes[(t % Len(ClockTimes)) + 1]

\* market_open of get_market_status.
get_market_status(market, t) ==
    IF market # "a_share" THEN TRUE
    ELSE /\ is_a_share_trading_day(DayOf(t))
         /\ \/ (MORNING_OPEN <= TimeOf(t) /\ TimeOf(t) < MORNING_CLOSE)
            \/ (AFTERNOON_OPEN <= TimeOf(t) /\ TimeOf(t) < AFTERNOON_CLOSE)

(***************************************************************************)
(* State                                                                   *)
(***************************************************************************)
VARIABLES
    engines,        \* trading_engines: the models that have an engine
    positions,      \* rows of table portfolios
    trades,         \* rows of table trades, in insertion order
    now,            \* the wall clock, in session windows
    pc,             \* per model: "idle", "executing" (at the head of the loop of
                    \* _execute_decisions) or "appended" (a result just appended)
    market_state,   \* per model: the quotes fetched at the start of the cycle
    snapshot,       \* per model: portfolio_snapshot of _execute_decisions
    last_decision,  \* per model: the loop's current (instrument, decision)
    last_result,    \* per model: the entry the loop last appended to results
    cycle_result,   \* per model: what the last execute_trading_cycle returned
    executed,       \* per model: how many entries of results carry no error
    calls,          \* per model: the collaborators' calls and answers and the
                    \* rows written by the current or the last cycle
    fee_call,       \* a call of _compute_a_share_fees on its own: the fee
                    \* model, the arguments and the result
    portfolio_call, \* calls of get_portfolio on their own: the model, the
                    \* current prices and the snapshots returned
    write_failures, \* how many writes of the handlers have raised
    calendar_call,  \* a call of next_trading_day on its own: the arguments,
                    \* the loop's current date and the date returned
    loop            \* trading_loop: where the scheduler thread is, the engines
                    \* it has still to visit in this iteration, and what it did
                    \* with each engine

vars == <<engines, positions, trades, now, pc, market_state, snapshot, last_decision,
          last_result, cycle_result, executed, calls, fee_call, portfolio_call,
          write_failures, calendar_call, loop>>

\* What a trading cycle has no part in.
direct_calls == <<fee_call, portfolio_call, calendar_call>>

(***************************************************************************)
(* Database: tables portfolios and trades                                  *)
(***************************************************************************)
\* A row of portfolios.  metadata is the entry_fee_total kept in the JSON
\* metadata column, or None when the column is NULL (crypto rows).
PositionRow(model_id, coin, market, side, quantity, avg_price, leverage, metadata, last_buy_date, next_sellable) ==
    [model_id |-> model_id, coin |-> coin, market_type |-> market, side |-> side,
     quantity |-> quantity, avg_price |-> avg_price, leverage |-> leverage,
     metadata |-> metadata, last_buy_date |-> last_buy_date,
     next_sellable_date |-> next_sellable]

\* An index on the instrument, the market and the side alone.
SameKeyAnyModel(p, model_id, coin, market, side) ==
    /\ p.coin = coin
    /\ p.market_type = market
    /\ p.side = side

\* The unique index idx_portfolios_model_instrument_market_side.
SameKey(p, model_id, coin, market, side) ==
    /\ p.model_id = model_id
    /\ p.coin = coin
    /\ p.market_type = market
    /\ p.side = side

\* The upsert with the COALESCE of the dates turned round: a stored date is
\* kept when there is one.
update_position_keeping_dates(pos, model_id, coin, quantity, avg_price, leverage, side, metadata, last_buy_date, next_sellable, market) ==
    LET old == {p \in pos : SameKey(p, model_id, coin, market, side)}
    IN  IF old = {}
        THEN pos \cup {PositionRow(model_id, coin, market, side, quantity, avg_price,
                                   leverage, metadata, last_buy_date, next_sellable)}
        ELSE LET o == CHOOSE p \in old : TRUE
             IN  (pos \ old) \cup
                 {PositionRow(model_id, coin, market, side, quantity, avg_price, leverage,
                     IF metadata # None THEN metadata ELSE o.metadata,
                     IF o.last_buy_date # NoDate THEN o.last_buy_date ELSE last_buy_date,
                     IF o.next_sellable_date # NoDate THEN o.next_sellable_date
                                                       ELSE next_sellable)}

\* A plain INSERT on a table without the unique index.
update_position_inserting(pos, model_id, coin, quantity, avg_price, leverage, side, metadata, last_buy_date, next_sellable, market) ==
    pos \cup {PositionRow(model_id, coin, market, side, quantity, avg_price,
                          leverage, metadata, last_buy_date, next_sellable)}

\* ON CONFLICT DO UPDATE SET quantity = quantity + excluded.quantity.
update_position_accumulating(pos, model_id, coin, quantity, avg_price, leverage, side, metadata, last_buy_date, next_sellable, market) ==
    LET old == {p \in pos : SameKey(p, model_id, coin, market, side)}
    IN  IF old = {}
        THEN pos \cup {PositionRow(model_id, coin, market, side, quantity, avg_price,
                                   leverage, metadata, last_buy_date, next_sellable)}
        ELSE LET o == CHOOSE p \in old : TRUE
             IN  (pos \ old) \cup
                 {PositionRow(model_id, coin, market, side, RAdd(o.quantity, quantity),
                     avg_price, leverage,
                     IF metadata # None THEN metadata ELSE o.metadata,
                     IF last_buy_date # NoDate THEN last_buy_date ELSE o.last_buy_date,
                     IF next_sellable # NoDate THEN next_sellable
                                               ELSE o.next_sellable_date)}

\* INSERT ... ON CONFLICT DO UPDATE: quantity, avg_price and leverage are
\* replaced by the values passed; metadata and the dates are replaced only
\* by non-NULL values.
update_position(pos, model_id, coin, quantity, avg_price, leverage, side, metadata, last_buy_date, next_sellable, market) ==
    LET old == {p \in pos : SameKey(p, model_id, coin, market, side)}
    IN  IF old = {}
        THEN pos \cup {PositionRow(model_id, coin, market, side, quantity, avg_price,
                                   leverage, metadata, last_buy_date, next_sellable)}
        ELSE LET o == CHOOSE p \in old : TRUE
             IN  (pos \ old) \cup
                 {PositionRow(model_id, coin, market, side, quantity, avg_price, leverage,
                     IF metadata # None THEN metadata ELSE o.metadata,
                     IF last_buy_date # NoDate THEN last_buy_date ELSE o.last_buy_date,
                     IF next_sellable # NoDate THEN next_sellable
                                               ELSE o.next_sellable_date)}

\* UPDATE portfolios SET quantity = 0 in place of the DELETE.
close_position_zeroing(pos, model_id, coin, side, market) ==
    {IF SameKey(p, model_id, coin, market, side) THEN [p EXCEPT !.quantity = R(0)] ELSE p :
        p \in pos}

close_position(pos, model_id, coin, side, market) ==
    {p \in pos : ~SameKey(p, model_id, coin, market, side)}

TradeRow(model_id, coin, signal, quantity, price, leverage, side, pnl, fee, allocated_entry_fee, cash_balance, trade_date) ==
    [model_id |-> model_id, coin |-> coin, signal |-> signal, quantity |-> quantity,
     price |-> price, leverage |-> leverage, side |-> side, pnl |-> pnl, fee |-> fee,
     allocated_entry_fee |-> allocated_entry_fee, cash_balance |-> cash_balance,
     trade_date |-> trade_date]

\* The new row written over the last one.
add_trade_over_last(trd, row) ==
    IF trd = <<>> THEN <<row>> ELSE [trd EXCEPT ![Len(trd)] = row]

add_trade(trd, row) == Append(trd, row)

\* SELECT ... WHERE model_id = ? AND coin = ? AND side = ? LIMIT 1, as a set
\* holding the row found, or empty.
get_position(pos, model_id, coin, side) ==
    {p \in pos : p.model_id = model_id /\ p.coin = coin /\ p.side = side}

TradesOf(trd, model_id) == SelectSeq(trd, LAMBDA t : t.model_id = model_id)

MapPnl(s) == [i \in 1..Len(s) |-> s[i].pnl]
MapFee(s) == [i \in 1..Len(s) |-> s[i].fee]
MapEntryFee(s) ==
    [i \in 1..Len(s) |->
        IF s[i].signal \in {"buy_to_enter", "sell_to_enter"} THEN s[i].fee ELSE R(0)]
MapAllocated(s) ==
    [i \in 1..Len(s) |->
        IF s[i].signal = "close_position" /\ s[i].allocated_entry_fee # None
        THEN s[i].allocated_entry_fee ELSE R(0)]
MapOpenFee(s) ==
    [i \in 1..Len(s) |-> IF s[i].metadata # None THEN s[i].metadata ELSE R(0)]
\* The whole notional taken as the margin.
MapMarginUnlevered(s) ==
    [i \in 1..Len(s) |-> RMul(s[i].quantity, s[i].avg_price)]

MapMargin(s) ==
    [i \in 1..Len(s) |->
        RDiv(RMul(s[i].quantity, s[i].avg_price),
             R(IF s[i].leverage = 0 THEN 1 ELSE s[i].leverage))]

\* current_prices maps a coin to its price, or to None when the coin has no
\* entry in the dict.
MarketValue(p, current_prices) ==
    IF current_prices[p.coin] = None THEN RMul(p.quantity, p.avg_price)
    ELSE IF p.side = "long" THEN RMul(p.quantity, current_prices[p.coin])
    ELSE RMul(p.quantity, p.avg_price)

PositionPnl(p, current_prices) ==
    IF current_prices[p.coin] = None THEN R(0)
    ELSE IF p.side = "long"
         THEN RMul(RSub(current_prices[p.coin], p.avg_price), p.quantity)
         ELSE RMul(RSub(p.avg_price, current_prices[p.coin]), p.quantity)

MapValue(s, current_prices) == [i \in 1..Len(s) |-> MarketValue(s[i], current_prices)]
MapUnrealized(s, current_prices) == [i \in 1..Len(s) |-> PositionPnl(s[i], current_prices)]

OpenPositions(pos, model_id) ==
    {p \in pos : p.model_id = model_id /\ RLt(R(0), p.quantity)}

\* realized_pnl without the entry fees still open taken off.
RealizedPnlWithoutOpenFees(pos, trd, model_id) ==
    LET realized_pnl_raw == RSum(MapPnl(TradesOf(trd, model_id)))
    IN  [raw |-> realized_pnl_raw, entry_fees |-> R(0), net |-> realized_pnl_raw]

\* realized_pnl of get_portfolio: the sum of the trades' pnl less the entry
\* fees still open.
RealizedPnl(pos, trd, model_id) ==
    LET rows == SetToSeq(OpenPositions(pos, model_id))
        mine == TradesOf(trd, model_id)
        realized_pnl_raw == RSum(MapPnl(mine))
        entry_fees_trades == RSum(MapEntryFee(mine))
        allocated_entry_fees == RSum(MapAllocated(mine))
        entry_fees_open_metadata == RSum(MapOpenFee(rows))
        entry_fees_open == RMax(RMax(RSub(entry_fees_trades, allocated_entry_fees),
                                     entry_fees_open_metadata), R(0))
    IN  [raw |-> realized_pnl_raw, entry_fees |-> entry_fees_open,
         net |-> RSub(realized_pnl_raw, entry_fees_open)]

MarginUsed(pos, model_id) == RSum(MapMargin(SetToSeq(OpenPositions(pos, model_id))))

\* cash of get_portfolio.
Cash(pos, trd, model_id) ==
    RSub(RAdd(R(initial_capital(model_id)), RealizedPnl(pos, trd, model_id).net),
         MarginUsed(pos, model_id))

get_portfolio(pos, trd, model_id, current_prices) ==
    LET open == OpenPositions(pos, model_id)
        rows == SetToSeq(open)
        realized == RealizedPnl(pos, trd, model_id)
        unrealized_pnl == RSum(MapUnrealized(rows, current_prices))
    IN  [cash |-> Cash(pos, trd, model_id),
         positions |-> open,
         positions_value |-> RSum(MapValue(rows, current_prices)),
         margin_used |-> MarginUsed(pos, model_id),
         total_value |-> RAdd(RAdd(R(initial_capital(model_id)), realized.net),
                              unrealized_pnl),
         realized_pnl |-> realized.net,
         realized_pnl_before_entry_fees |-> realized.raw,
         entry_fees |-> realized.entry_fees,
         fees_paid |-> RSum(MapFee(TradesOf(trd, model_id))),
         unrealized_pnl |-> unrealized_pnl]

\* portfolio_snapshot as the handlers read it: portfolio['cash'] and
\* portfolio['positions'], neither of which depends on the current prices.
Snapshot(pos, trd, model_id) ==
    [cash |-> Cash(pos, trd, model_id), positions |-> OpenPositions(pos, model_id)]

\* portfolio_snapshot left as it was after a result.
RefreshSnapshotNever(old, res, pos, trd, model_id) == old

\* if not result.get('error'): portfolio_snapshot = self.db.get_portfolio(...)
RefreshSnapshot(old, res, pos, trd, model_id) ==
    IF res.error = "" THEN Snapshot(pos, trd, model_id) ELSE old

\* The search with the side of the position ignored.
find_position_any_side(portfolio, pos, model_id, coin, side) ==
    LET hit == {p \in portfolio.positions : p.coin = coin}
    IN  IF hit # {} THEN hit ELSE get_position(pos, model_id, coin, side)

find_position(portfolio, pos, model_id, coin, side) ==
    LET hit == {p \in portfolio.positions : p.coin = coin /\ p.side = side}
    IN  IF hit # {} THEN hit ELSE get_position(pos, model_id, coin, side)

(***************************************************************************)
(* TradingEngine: helpers                                                  *)
(***************************************************************************)
\* One entry of execution_results.  Fields a result dict does not carry are
\* "" or None.
Result(coin, signal, error, quantity, price, pnl, fee, cash_after) ==
    [coin |-> coin, signal |-> signal, error |-> error, quantity |-> quantity,
     price |-> price, pnl |-> pnl, fee |-> fee, cash_after |-> cash_after]

\* What a handler does: the tables after it and the result dict it returns.
\* The data-quality warnings a result dict carries.  The dicts the handlers
\* return have the keys coin, signal, quantity, price, fees, board,
\* limit_up_price, limit_down_price, next_sellable_date, cash_after,
\* market_type, message and error: none of them is a warning.
ResultWarnings(res) == {}

Outcome(pos, trd, res) == [pos |-> pos, trd |-> trd, res |-> res, raised |-> FALSE]

\* An exception that leaves _execute_decisions: no result is appended, and
\* execute_trading_cycle returns from its except clause.
Raised(pos, trd) ==
    [pos |-> pos, trd |-> trd, raised |-> TRUE,
     res |-> Result("", "", "", None, None, None, None, None)]

Rejected(pos, trd, coin, signal, error) ==
    Outcome(pos, trd, Result(coin, signal, error, None, None, None, None, None))

\* float(target_price) if target_price else float(quote.get('price', 0))
ResolvePrice(target_price, quote) ==
    IF target_price # None /\ target_price # R(0) THEN target_price
    ELSE IF quote.price = None THEN R(0) ELSE quote.price

\* leverage = max(int(decision.get('leverage', 1) or 1), 1)
ResolveLeverage(leverage) == IF leverage < 1 THEN 1 ELSE leverage

\* _normalize_a_share_quantity without the test of the lot step.
normalize_a_share_quantity_no_step(quantity, allow_remainder, max_quantity) ==
    IF quantity = None THEN <<0, "Invalid quantity">>
    ELSE IF RLe(quantity, R(0)) THEN <<0, "Invalid quantity">>
    ELSE LET normalized == Round(quantity)
             min_lot == IF lot_size < 1 THEN 1 ELSE lot_size
             capped == allow_remainder /\ max_quantity # None
             max_int == IF max_quantity # None THEN Round(max_quantity) ELSE 0
         IN  IF RLt(QuantityTolerance, RAbs(RSub(quantity, R(normalized))))
             THEN <<0, "Quantity must be an integer number of shares">>
             ELSE IF capped /\ normalized >= max_int THEN <<max_int, "">>
             ELSE IF normalized < min_lot /\ ~allow_remainder
             THEN <<0, "Quantity must be at least lot_size shares">>
             ELSE <<normalized, "">>

\* _normalize_a_share_quantity with the lot step not tested on a close.
normalize_a_share_quantity_any_remainder(quantity, allow_remainder, max_quantity) ==
    IF quantity = None THEN <<0, "Invalid quantity">>
    ELSE IF RLe(quantity, R(0)) THEN <<0, "Invalid quantity">>
    ELSE LET normalized == Round(quantity)
             min_lot == IF lot_size < 1 THEN 1 ELSE lot_size
             step == IF lot_step < 1 THEN 1 ELSE lot_step
             capped == allow_remainder /\ max_quantity # None
             max_int == IF max_quantity # None THEN Round(max_quantity) ELSE 0
         IN  IF RLt(QuantityTolerance, RAbs(RSub(quantity, R(normalized))))
             THEN <<0, "Quantity must be an integer number of shares">>
             ELSE IF capped /\ normalized >= max_int THEN <<max_int, "">>
             ELSE IF normalized < min_lot /\ ~allow_remainder
             THEN <<0, "Quantity must be at least lot_size shares">>
             ELSE IF normalized % step # 0 /\ ~allow_remainder
             THEN <<0, "Quantity must be a multiple of lot_step">>
             ELSE <<normalized, "">>

\* _normalize_a_share_quantity: <<normalized, error>>; max_quantity is None
\* when the argument is not passed.
normalize_a_share_quantity(quantity, allow_remainder, max_quantity) ==
    IF quantity = None THEN <<0, "Invalid quantity">>
    ELSE IF RLe(quantity, R(0)) THEN <<0, "Invalid quantity">>
    ELSE LET normalized == Round(quantity)
             min_lot == IF lot_size < 1 THEN 1 ELSE lot_size
             step == IF lot_step < 1 THEN 1 ELSE lot_step
             capped == allow_remainder /\ max_quantity # None
             max_int == IF max_quantity # None THEN Round(max_quantity) ELSE 0
         IN  IF RLt(QuantityTolerance, RAbs(RSub(quantity, R(normalized))))
             THEN <<0, "Quantity must be an integer number of shares">>
             ELSE IF capped /\ normalized >= max_int THEN <<max_int, "">>
             ELSE IF normalized < min_lot /\ ~allow_remainder
             THEN <<0, "Quantity must be at least lot_size shares">>
             ELSE IF normalized < min_lot /\ capped /\ normalized = max_int
             THEN <<normalized, "">>
             ELSE IF normalized % step # 0 /\ ~(capped /\ normalized >= max_int)
             THEN <<0, "Quantity must be a multiple of lot_step">>
             ELSE <<normalized, "">>

\* _check_price_limits with the limit-down test left out.
check_price_limits_up_only(quote, price) ==
    IF quote.limit_up_price # None
       /\ RLt(RMul(quote.limit_up_price, RAdd(R(1), price_limit_tolerance)), price)
    THEN "Price exceeds daily limit-up"
    ELSE ""

\* _check_price_limits: "" when the guard passes.
check_price_limits(quote, price) ==
    IF quote.limit_up_price # None
       /\ RLt(RMul(quote.limit_up_price, RAdd(R(1), price_limit_tolerance)), price)
    THEN "Price exceeds daily limit-up"
    ELSE IF quote.limit_down_price # None
            /\ RLt(price, RMul(quote.limit_down_price, RSub(R(1), price_limit_tolerance)))
    THEN "Price below daily limit-down"
    ELSE ""

\* self.fee_model of an A-share engine.
FeeModel(rate, minimum, transfer, stamp) ==
    [commission_rate |-> rate, commission_min |-> minimum, transfer_rate |-> transfer,
     stamp_duty_rate |-> stamp]

\* The minimum commission charged on a trade of no amount as well.
a_share_fees_min_always(fee_model, trade_amount, side) ==
    LET duty_rate == IF side = "sell" THEN fee_model.stamp_duty_rate ELSE R(0)
        commission == RMax(RMul(trade_amount, fee_model.commission_rate),
                           fee_model.commission_min)
        transfer_fee == RMul(trade_amount, fee_model.transfer_rate)
        stamp_duty == RMul(trade_amount, duty_rate)
    IN  [commission |-> commission, transfer_fee |-> transfer_fee,
         stamp_duty |-> stamp_duty,
         total |-> RAdd(RAdd(commission, transfer_fee), stamp_duty)]

\* _compute_a_share_fees under a given fee model: the unrounded ('raw')
\* amounts.
a_share_fees(fee_model, trade_amount, side) ==
    LET duty_rate == IF side = "sell" THEN fee_model.stamp_duty_rate ELSE R(0)
        base == RMul(trade_amount, fee_model.commission_rate)
        commission == IF RLt(R(0), fee_model.commission_min)
                      THEN (IF RLt(R(0), trade_amount)
                            THEN RMax(base, fee_model.commission_min)
                            ELSE R(0))
                      ELSE base
        transfer_fee == RMul(trade_amount, fee_model.transfer_rate)
        stamp_duty == RMul(trade_amount, duty_rate)
    IN  [commission |-> commission, transfer_fee |-> transfer_fee,
         stamp_duty |-> stamp_duty,
         total |-> RAdd(RAdd(commission, transfer_fee), stamp_duty)]

\* _resolve_fee_model with no 'fees' in the market configuration.
DefaultFeeModel == FeeModel(commission_rate, commission_min, transfer_rate, stamp_duty_rate)

\* The stamp duty left out of a sale.
compute_a_share_fees_no_stamp(trade_amount, side) ==
    a_share_fees(DefaultFeeModel, trade_amount, "buy")

\* _compute_a_share_fees of an engine with the default fee model.
compute_a_share_fees(trade_amount, side) ==
    a_share_fees(DefaultFeeModel, trade_amount, side)

\* The cash test with the comparison turned round.
InsufficientCashReversed(total_required, cash) == RLt(total_required, cash)

\* total_required > portfolio['cash'] of the entry handlers.
InsufficientCash(total_required, cash) == RLt(cash, total_required)

\* new_avg_price of _execute_a_share_buy.
NewAvgPrice(prev_quantity, prev_avg_price, quantity, price) ==
    RDiv(RAdd(RMul(prev_quantity, prev_avg_price), RMul(quantity, price)),
         RAdd(prev_quantity, quantity))

\* allocated_entry_fee of _execute_a_share_close.
AllocatedEntryFee(entry_fee_total, quantity, position_quantity) ==
    RMul(entry_fee_total, RDiv(quantity, position_quantity))

\* remaining_entry_fee when the allocation is not taken off the total.
RemainingEntryFeeKept(entry_fee_total, allocated_entry_fee) == entry_fee_total

\* remaining_entry_fee of _execute_a_share_close.
RemainingEntryFee(entry_fee_total, allocated_entry_fee) ==
    RMax(RSub(entry_fee_total, allocated_entry_fee), R(0))

\* The T+1 test with the comparison made inclusive.
SettlementLockedInclusive(next_sellable, trade_date) ==
    next_sellable # NoDate /\ trade_date <= next_sellable

\* The T+1 test of _execute_a_share_close.
SettlementLocked(next_sellable, trade_date) ==
    next_sellable # NoDate /\ trade_date < next_sellable

\* gross_pnl with the side ignored.
GrossPnlLongOnly(side, entry_price, price, quantity) ==
    RMul(RSub(price, entry_price), quantity)

\* gross_pnl of the close handlers.
GrossPnl(side, entry_price, price, quantity) ==
    IF side = "long" THEN RMul(RSub(price, entry_price), quantity)
    ELSE RMul(RSub(entry_price, price), quantity)

(***************************************************************************)
(* TradingEngine: crypto handlers                                          *)
(***************************************************************************)
\* _execute_crypto_buy (side "long") and _execute_crypto_sell (side "short"):
\* the two bodies differ only in the side and the signal they record.
execute_crypto_entry(pos, trd, portfolio, model_id, coin, d, quote, today, side, signal) ==
    LET quantity == IF d.quantity = None THEN R(0) ELSE d.quantity
        leverage == ResolveLeverage(d.leverage)
        price == ResolvePrice(d.price, quote)
        trade_amount == RMul(quantity, price)
        trade_fee == RMul(trade_amount, TRADE_FEE_RATE)
        required_margin == RDiv(RMul(quantity, price), R(leverage))
        total_required == RAdd(required_margin, trade_fee)
        cash_after == RSub(portfolio.cash, total_required)
    IN  IF RLe(quantity, R(0)) THEN Rejected(pos, trd, coin, "", "Invalid quantity")
        ELSE IF d.malformed = "leverage_not_numeric"
        THEN Rejected(pos, trd, coin, signal, "invalid literal for int()")
        ELSE IF RLe(price, R(0)) THEN Rejected(pos, trd, coin, "", "Market price unavailable")
        ELSE IF InsufficientCash(total_required, portfolio.cash)
        THEN Rejected(pos, trd, coin, "", "Insufficient cash (including fees)")
        ELSE Outcome(
                update_position(pos, model_id, coin, quantity, price, leverage, side,
                                None, NoDate, NoDate, "crypto"),
                add_trade(trd, TradeRow(model_id, coin, signal, quantity, price, leverage,
                                        side, R(0), trade_fee, None, cash_after, today)),
                Result(coin, signal, "", quantity, price, None, trade_fee, cash_after))

execute_crypto_buy(pos, trd, portfolio, model_id, coin, d, quote, today) ==
    execute_crypto_entry(pos, trd, portfolio, model_id, coin, d, quote, today,
                         "long", "buy_to_enter")

execute_crypto_sell(pos, trd, portfolio, model_id, coin, d, quote, today) ==
    execute_crypto_entry(pos, trd, portfolio, model_id, coin, d, quote, today,
                         "short", "sell_to_enter")

\* The close that honours the quantity of the decision and keeps the rest.
execute_crypto_close_by_quantity(pos, trd, portfolio, model_id, coin, d, quote, today) ==
    LET preferred_side == IF d.side = "" THEN "long" ELSE d.side
        opposite_side == IF preferred_side = "long" THEN "short" ELSE "long"
        first == find_position(portfolio, pos, model_id, coin, preferred_side)
        found == IF first # {} THEN first
                 ELSE find_position(portfolio, pos, model_id, coin, opposite_side)
    IN  IF found = {} THEN Rejected(pos, trd, coin, "", "Position not found")
        ELSE
        LET position == CHOOSE p \in found : TRUE
            current_price == ResolvePrice(d.price, quote)
            quantity == IF d.quantity # None /\ RLt(d.quantity, position.quantity)
                        THEN d.quantity ELSE position.quantity
            side == position.side
            gross_pnl == GrossPnl(side, position.avg_price, current_price, quantity)
            trade_amount == RMul(quantity, current_price)
            trade_fee == RMul(trade_amount, TRADE_FEE_RATE)
            net_pnl == RSub(gross_pnl, trade_fee)
            cash_after == RAdd(portfolio.cash, RSub(trade_amount, trade_fee))
        IN  IF RLe(current_price, R(0))
            THEN Rejected(pos, trd, coin, "", "Market price unavailable")
            ELSE Outcome(
                    IF quantity = position.quantity
                    THEN close_position(pos, model_id, coin, side, "crypto")
                    ELSE update_position(pos, model_id, coin,
                             RSub(position.quantity, quantity), position.avg_price,
                             position.leverage, side, None, NoDate, NoDate, "crypto"),
                    add_trade(trd, TradeRow(model_id, coin, "close_position", quantity,
                                            current_price, position.leverage, side, net_pnl,
                                            trade_fee, None, cash_after, today)),
                    Result(coin, "close_position", "", quantity, current_price, net_pnl,
                           trade_fee, None))

execute_crypto_close(pos, trd, portfolio, model_id, coin, d, quote, today) ==
    LET preferred_side == IF d.side = "" THEN "long" ELSE d.side
        opposite_side == IF preferred_side = "long" THEN "short" ELSE "long"
        first == find_position(portfolio, pos, model_id, coin, preferred_side)
        found == IF first # {} THEN first
                 ELSE find_position(portfolio, pos, model_id, coin, opposite_side)
    IN  IF found = {} THEN Rejected(pos, trd, coin, "", "Position not found")
        ELSE
        LET position == CHOOSE p \in found : TRUE
            current_price == ResolvePrice(d.price, quote)
            quantity == position.quantity
            entry_price == position.avg_price
            side == position.side
            leverage == IF position.leverage = 0 THEN 1 ELSE position.leverage
            gross_pnl == GrossPnl(side, entry_price, current_price, quantity)
            trade_amount == RMul(quantity, current_price)
            trade_fee == RMul(trade_amount, TRADE_FEE_RATE)
            net_pnl == RSub(gross_pnl, trade_fee)
            cash_after == RAdd(portfolio.cash, RSub(trade_amount, trade_fee))
        IN  IF RLe(current_price, R(0))
            THEN Rejected(pos, trd, coin, "", "Market price unavailable")
            ELSE Outcome(
                    close_position(pos, model_id, coin, side, "crypto"),
                    add_trade(trd, TradeRow(model_id, coin, "close_position", quantity,
                                            current_price, leverage, side, net_pnl,
                                            trade_fee, None, cash_after, today)),
                    Result(coin, "close_position", "", quantity, current_price, net_pnl,
                           trade_fee, None))

\* The session taken as open whatever the calendar says.
ensure_market_session_open_always(market, t) == TRUE

\* is_open of _ensure_market_session_open: the calendar is asked again by
\* every handler call.
ensure_market_session_open(market, t) == get_market_status(market, t)

(***************************************************************************)
(* TradingEngine: A-share handlers                                         *)
(***************************************************************************)
execute_a_share_buy(pos, trd, portfolio, model_id, coin, d, quote, t) ==
    LET norm == normalize_a_share_quantity(
                    IF d.quantity = None THEN R(0) ELSE d.quantity, FALSE, None)
        normalized_quantity == R(norm[1])
        execution_price == ResolvePrice(d.price, quote)
        limit_error == check_price_limits(quote, execution_price)
        trade_amount == RMul(normalized_quantity, execution_price)
        fees == compute_a_share_fees(trade_amount, "buy")
        total_required == RAdd(trade_amount, fees.total)
        existing == find_position(portfolio, pos, model_id, coin, "long")
        prev_quantity == IF existing = {} THEN R(0)
                         ELSE (CHOOSE p \in existing : TRUE).quantity
        prev_avg_price == IF existing = {} THEN execution_price
                          ELSE (CHOOSE p \in existing : TRUE).avg_price
        prev_fee_total == IF existing = {} THEN R(0)
                          ELSE LET md == (CHOOSE p \in existing : TRUE).metadata
                               IN  IF md = None THEN R(0) ELSE md
        new_quantity == RAdd(prev_quantity, normalized_quantity)
        new_avg_price == NewAvgPrice(prev_quantity, prev_avg_price,
                                     normalized_quantity, execution_price)
        last_buy_date == DayOf(t)
        next_sellable == next_sellable_date("a_share", DayOf(t))
        entry_fee_total == RAdd(prev_fee_total, fees.total)
        cash_after == RSub(portfolio.cash, total_required)
    IN  IF ~ensure_market_session_open("a_share", t)
        THEN Rejected(pos, trd, coin, "", "A-share market closed")
        ELSE IF norm[2] # "" THEN Rejected(pos, trd, coin, "", norm[2])
        ELSE IF RLe(execution_price, R(0))
        THEN Rejected(pos, trd, coin, "", "Price unavailable for order execution")
        ELSE IF limit_error # "" THEN Rejected(pos, trd, coin, "", limit_error)
        ELSE IF InsufficientCash(total_required, portfolio.cash)
        THEN Rejected(pos, trd, coin, "", "Insufficient cash (including fees)")
        ELSE IF RLe(new_quantity, R(0))
        THEN Rejected(pos, trd, coin, "", "Invalid resulting position quantity")
        ELSE Outcome(
                update_position(pos, model_id, coin, new_quantity, new_avg_price, 1, "long",
                                entry_fee_total, last_buy_date, next_sellable, "a_share"),
                add_trade(trd, TradeRow(model_id, coin, "buy_to_enter", normalized_quantity,
                                        execution_price, 1, "long", R(0), fees.total, None,
                                        cash_after, DayOf(t))),
                Result(coin, "buy_to_enter", "", normalized_quantity, execution_price,
                       None, fees.total, cash_after))

execute_a_share_close(pos, trd, portfolio, model_id, coin, d, quote, t) ==
    LET found == find_position(portfolio, pos, model_id, coin, "long")
    IN  IF ~ensure_market_session_open("a_share", t)
        THEN Rejected(pos, trd, coin, "", "A-share market closed")
        ELSE IF found = {} THEN Rejected(pos, trd, coin, "", "Position not found")
        ELSE
        LET position == CHOOSE p \in found : TRUE
            position_quantity == position.quantity
            norm == IF d.quantity = None THEN <<Round(position_quantity), "">>
                    ELSE normalize_a_share_quantity(d.quantity, TRUE, position_quantity)
            normalized_quantity ==
                IF RLt(position_quantity, R(norm[1])) THEN R(Round(position_quantity))
                ELSE R(norm[1])
            execution_price == ResolvePrice(d.price, quote)
            limit_error == check_price_limits(quote, execution_price)
            trade_amount == RMul(normalized_quantity, execution_price)
            fees == compute_a_share_fees(trade_amount, "sell")
            entry_price == position.avg_price
            gross_pnl == GrossPnl("long", entry_price, execution_price, normalized_quantity)
            entry_fee_total == IF position.metadata = None THEN R(0) ELSE position.metadata
            allocated_entry_fee ==
                AllocatedEntryFee(entry_fee_total, normalized_quantity, position_quantity)
            net_pnl_before_entry == RSub(gross_pnl, fees.total)
            net_pnl_after_entry == RSub(net_pnl_before_entry, allocated_entry_fee)
            remaining_quantity == RMax(RSub(position_quantity, normalized_quantity), R(0))
            cash_after == RAdd(portfolio.cash, RSub(trade_amount, fees.total))
        IN  IF RLe(position_quantity, R(0))
            THEN Rejected(pos, trd, coin, "", "Position quantity is zero")
            ELSE IF norm[2] # "" THEN Rejected(pos, trd, coin, "", norm[2])
            ELSE IF RLe(normalized_quantity, R(0))
            THEN Rejected(pos, trd, coin, "", "Invalid sell quantity")
            ELSE IF RLe(execution_price, R(0))
            THEN Rejected(pos, trd, coin, "", "Price unavailable for order execution")
            ELSE IF limit_error # "" THEN Rejected(pos, trd, coin, "", limit_error)
            ELSE IF SettlementLocked(position.next_sellable_date, DayOf(t))
            THEN Rejected(pos, trd, coin, "", "T+1 rule")
            ELSE Outcome(
                    IF RLe(remaining_quantity, R(0))
                    THEN close_position(pos, model_id, coin, "long", "a_share")
                    ELSE update_position(pos, model_id, coin, R(Round(remaining_quantity)),
                             entry_price, 1, "long",
                             RemainingEntryFee(entry_fee_total, allocated_entry_fee),
                             position.last_buy_date, position.next_sellable_date, "a_share"),
                    add_trade(trd, TradeRow(model_id, coin, "close_position",
                                            normalized_quantity, execution_price, 1, "long",
                                            net_pnl_after_entry, fees.total,
                                            allocated_entry_fee, cash_after, DayOf(t))),
                    Result(coin, "close_position", "", normalized_quantity, execution_price,
                           net_pnl_after_entry, fees.total, cash_after))

(***************************************************************************)
(* TradingEngine._execute_decisions: one iteration of the loop             *)
(***************************************************************************)
NoQuote == [price |-> None, limit_up_price |-> None, limit_down_price |-> None]

Quote(price, limit_up, limit_down) ==
    [price |-> price, limit_up_price |-> limit_up, limit_down_price |-> limit_down]

Decision(signal, quantity, price, leverage, side) ==
    [signal |-> signal, quantity |-> quantity, price |-> price, leverage |-> leverage,
     side |-> side, malformed |-> ""]

\* A value of the decisions map that is not as the handlers expect it:
\* "not_object" is a value without .get (a string, a list, null),
\* "signal_not_string" an object whose signal is a number or a list, and
\* "leverage_not_numeric" an object whose leverage float() and int() refuse.
Malformed(d, kind) == [d EXCEPT !.malformed = kind]

\* No market refuses a leverage.
LeverageUnsupportedNever(market, leverage) == FALSE

\* if self.market_type == 'a_share': ... if float(leverage_value) != 1
LeverageUnsupported(market, leverage) == market = "a_share" /\ leverage # 1

execute_decision(pos, trd, portfolio, model_id, coin, d, quotes, t) ==
    LET market == MarketType(model_id)
    IN  IF coin \notin Instruments(model_id)
        THEN Rejected(pos, trd, coin, "", "Instrument not allowed")
        ELSE IF quotes[coin] = NoQuote
        THEN Rejected(pos, trd, coin, "", "No market data available")
        ELSE IF d.malformed \in {"not_object", "signal_not_string"}
        THEN Raised(pos, trd)
        ELSE IF market = "a_share" /\ d.malformed = "leverage_not_numeric"
        THEN Raised(pos, trd)
        ELSE IF LeverageUnsupported(market, d.leverage)
        THEN Rejected(pos, trd, coin, d.signal, "Leverage is not supported for A-share trades")
        ELSE IF market = "a_share" /\ d.signal = "sell_to_enter"
        THEN Rejected(pos, trd, coin, d.signal, "Short selling not supported in A-share market")
        ELSE IF d.signal = "buy_to_enter"
        THEN (IF market = "a_share"
              THEN execute_a_share_buy(pos, trd, portfolio, model_id, coin, d, quotes[coin], t)
              ELSE execute_crypto_buy(pos, trd, portfolio, model_id, coin, d, quotes[coin],
                                      DayOf(t)))
        ELSE IF d.signal = "sell_to_enter"
        THEN execute_crypto_sell(pos, trd, portfolio, model_id, coin, d, quotes[coin], DayOf(t))
        ELSE IF d.signal = "close_position"
        THEN (IF market = "a_share"
              THEN execute_a_share_close(pos, trd, portfolio, model_id, coin, d, quotes[coin], t)
              ELSE execute_crypto_close(pos, trd, portfolio, model_id, coin, d, quotes[coin],
                                        DayOf(t)))
        ELSE IF d.signal = "hold"
        THEN Outcome(pos, trd, Result(coin, "hold", "", None, None, None, None, None))
        ELSE Rejected(pos, trd, coin, d.signal, "Unknown signal")

(***************************************************************************)
(* Inputs: what the market-data and decision collaborators may return      *)
(***************************************************************************)
QuoteSet(m) ==
    IF Cardinality(engines) > 1
    THEN {Quote(R(20), None, None)}
    ELSE IF m = 3
    THEN {Quote(R(50), None, None), Quote(R(55), None, None)}
    ELSE IF MarketType(m) = "a_share"
    THEN {Quote(R(20), R(22), R(18)), Quote(R(20), None, None)}
    ELSE {Quote(R(20), None, None)}

\* The decisions the decision source may return for one key of its map, by
\* signal: one representative for each way the handlers treat a field.
BuyDecisions(m, signal) ==
    IF m = 3
    THEN {Decision(signal, q, None, 1, "") : q \in {R(100), R(200)}}
    ELSE IF m = 4
    THEN {Decision(signal, R(1), None, l, "") : l \in {1, 2}}
    ELSE IF MarketType(m) = "a_share"
    THEN {Decision(signal, R(100), p, 1, "") : p \in {None, R(22), R(24)}}
         \cup {Decision(signal, q, None, 1, "") :
                  q \in {None, R(0), R(50), R(250), R(300), Frac(201, 2),
                         Frac(2000001, 20000)}}
         \cup {Decision(signal, R(100), None, 2, ""),
               Malformed(Decision(signal, R(100), None, 1, ""), "leverage_not_numeric")}
    ELSE {Decision(signal, R(1), p, l, "") : p \in {None, R(24)}, l \in {1, 2}}
         \cup {Decision(signal, q, None, 1, "") : q \in {R(0), R(2)}}
         \cup {Decision(signal, R(600), None, l, "") : l \in {1, 2}}
         \cup {Malformed(Decision(signal, R(1), None, 1, ""), "leverage_not_numeric")}

CloseDecisions(m) ==
    IF m = 3
    THEN {Decision("close_position", q, None, 1, "") : q \in {None, R(100)}}
    ELSE IF m = 4
    THEN {Decision("close_position", q, None, 1, s) :
             q \in {None, Frac(1, 2)}, s \in {"", "long", "short"}}
    ELSE IF MarketType(m) = "a_share"
    THEN {Decision("close_position", None, p, 1, "") : p \in {None, R(16), R(24)}}
         \cup {Decision("close_position", q, None, 1, "") :
                  q \in {R(50), R(100), R(400), Frac(2000001, 20000), Frac(801, 2)}}
    ELSE {Decision("close_position", None, p, 1, s) : p \in {None, R(24)}, s \in {"", "short"}}

\* The decisions drawn where several engines run: a buy of one lot, a short
\* of one lot, a close of the whole position, a hold, an unknown signal.
SharedDecisions(signal) ==
    IF signal \in {"buy_to_enter", "sell_to_enter"}
    THEN {Decision(signal, R(100), None, 1, "")}
    ELSE {Decision(signal, None, None, 1, "")}

\* The decisions drawn for the two callers of one engine: a buy of three
\* lots, a close of the whole position, a hold, an unknown signal.
SameEngineDecisions(signal) ==
    IF signal \in {"buy_to_enter", "sell_to_enter"}
    THEN {Decision(signal, R(300), None, 1, "")}
    ELSE {Decision(signal, None, None, 1, "")}

Decisions(m, signal) ==
    IF Owner(m) = 5 THEN SameEngineDecisions(signal)
    ELSE IF Cardinality(engines) > 1 THEN SharedDecisions(signal)
    ELSE IF signal \in {"buy_to_enter", "sell_to_enter"} THEN BuyDecisions(m, signal)
    ELSE IF signal = "close_position" THEN CloseDecisions(m)
    ELSE IF signal = "hold"
    THEN {Decision(signal, None, None, l, "") : l \in {1, 2}}
         \cup {Decision(signal, R(100), R(24), 1, "")}
    ELSE {Decision(signal, None, None, 1, ""),
          Malformed(Decision(signal, None, None, 1, ""), "not_object"),
          Malformed(Decision(signal, None, None, 1, ""), "signal_not_string")}

DecisionKeys(m, signal) == IF signal \in {"hold", ""} THEN Instruments(m) \cup {"OTHER"}
                           ELSE Instruments(m)

NoSnapshot == [cash |-> None, positions |-> {}]

NoResult == Result("", "", "", None, None, None, None, None)

NoDecision == [coin |-> "", decision |-> Decision("", None, None, 1, "")]

IdleQuotes == [c \in AllInstruments |-> NoQuote]

MaxNow == (MaxDay + 1) * Len(ClockTimes) - 1

\* What the collaborators of one cycle were asked and what they answered: the
\* calls of market_fetcher.get_current_prices and ai_trader.make_decision with
\* their outcomes, and the rows written by db.add_conversation and
\* db.record_account_value.
Calls(fetch, fetched, decide, decided, conversation, account_value) ==
    [fetch |-> fetch, fetched |-> fetched, decide |-> decide, decided |-> decided,
     conversation |-> conversation, account_value |-> account_value]

NoCalls == Calls(0, "", 0, "", 0, 0)

\* The scheduler thread: pc is "off" (auto trading not started), "sleeping"
\* (between iterations), "iterating" (in the for loop over the engines) or
\* "calling" (inside engine.execute_trading_cycle() of engine current).
Loop(pc_, iteration, pending, current, invoked, skipped, outcome) ==
    [pc |-> pc_, iteration |-> iteration, pending |-> pending, current |-> current,
     invoked |-> invoked, skipped |-> skipped, outcome |-> outcome]

NoLoop == Loop("off", 0, <<>>, 0, [m \in Models |-> 0], {}, [m \in Models |-> ""])

FetchOutcomes == {"ok", "empty", "raises"}

DecideOutcomes == {"ok", "raises"}

\* make_decision is called before the market status is looked at.
CyclePrologueDecidesFirst(market, market_open, fetched, decided) ==
    IF fetched # "ok"
    THEN [result |-> "failed", calls |-> Calls(1, fetched, 0, "", 0, 0)]
    ELSE IF decided = "raises"
    THEN [result |-> "failed", calls |-> Calls(1, fetched, 1, decided, 0, 0)]
    ELSE IF market = "a_share" /\ ~market_open
    THEN [result |-> "market_closed", calls |-> Calls(1, fetched, 1, decided, 1, 0)]
    ELSE [result |-> "running", calls |-> Calls(1, fetched, 1, decided, 1, 0)]

\* An empty market state is fetched a second time, and used as it is.
CyclePrologueRetries(market, market_open, fetched, decided) ==
    IF fetched = "raises"
    THEN [result |-> "failed", calls |-> Calls(1, fetched, 0, "", 0, 0)]
    ELSE IF market = "a_share" /\ ~market_open
    THEN [result |-> "market_closed",
          calls |-> Calls(IF fetched = "empty" THEN 2 ELSE 1, fetched, 0, "", 0, 0)]
    ELSE IF decided = "raises"
    THEN [result |-> "failed",
          calls |-> Calls(IF fetched = "empty" THEN 2 ELSE 1, fetched, 1, decided, 0, 0)]
    ELSE [result |-> "running",
          calls |-> Calls(IF fetched = "empty" THEN 2 ELSE 1, fetched, 1, decided, 1, 0)]

\* execute_trading_cycle up to the call of _execute_decisions: the market
\* state is fetched, and an empty one raises; a closed A-share market returns
\* success with no decisions; make_decision is called and its answer stored
\* as a conversation.  Any exception returns success False.
CyclePrologue(market, market_open, fetched, decided) ==
    IF fetched # "ok"
    THEN [result |-> "failed", calls |-> Calls(1, fetched, 0, "", 0, 0)]
    ELSE IF market = "a_share" /\ ~market_open
    THEN [result |-> "market_closed", calls |-> Calls(1, fetched, 0, "", 0, 0)]
    ELSE IF decided = "raises"
    THEN [result |-> "failed", calls |-> Calls(1, fetched, 1, decided, 0, 0)]
    ELSE [result |-> "running", calls |-> Calls(1, fetched, 1, decided, 1, 0)]

NoFees == [commission |-> None, transfer_fee |-> None, stamp_duty |-> None, total |-> None]

NoFeeCall == [fee_model |-> DefaultFeeModel, trade_amount |-> None, side |-> "",
              fees |-> NoFees]

NoPortfolioCall == [model_id |-> 0, current_prices |-> <<>>, returned |-> <<>>]

NoCalendarCall == [market_type |-> "", from_date |-> NoDate, current |-> NoDate,
                   returned |-> NoDate]

TradeBound(m) ==
    IF loop.pc # "off" THEN MaxLoopTrades
    ELSE IF Cardinality(engines) > 1 THEN MaxSharedTrades
    ELSE IF m = 4 THEN MaxSideTrades
    ELSE IF MarketType(m) = "a_share" THEN MaxTrades ELSE MaxCryptoTrades

(***************************************************************************)
(* Actions                                                                 *)
(***************************************************************************)
InitWith(E) ==
    /\ engines = E
    /\ positions = {}
    /\ trades = <<>>
    /\ now = 0
    /\ pc = [m \in Models |-> "idle"]
    /\ market_state = [m \in Models |-> IdleQuotes]
    /\ snapshot = [m \in Models |-> NoSnapshot]
    /\ last_decision = [m \in Models |-> NoDecision]
    /\ last_result = [m \in Models |-> NoResult]
    /\ cycle_result = [m \in Models |-> "none"]
    /\ executed = [m \in Models |-> 0]
    /\ calls = [m \in Models |-> NoCalls]
    /\ write_failures = 0
    /\ loop = NoLoop
    /\ fee_call = NoFeeCall
    /\ portfolio_call = NoPortfolioCall
    /\ calendar_call = NoCalendarCall

Init == \E m \in DefaultModels : InitWith({m})

\* execute_trading_cycle up to the call of _execute_decisions, for one answer
\* of the market-data collaborator and one of the decision source.
CycleStart(m) ==
    /\ m \in engines
    /\ pc[m] = "idle"
    /\ \E ms \in [Instruments(m) -> QuoteSet(m)],
          fetched \in FetchOutcomes, decided \in DecideOutcomes :
         LET prologue == CyclePrologue(MarketType(m),
                                       get_market_status(MarketType(m), now),
                                       fetched, decided)
         IN  /\ cycle_result' = [cycle_result EXCEPT ![m] = prologue.result]
             /\ calls' = [calls EXCEPT ![m] = prologue.calls]
             /\ IF prologue.result = "running"
                THEN /\ pc' = [pc EXCEPT ![m] = "executing"]
                     /\ market_state' = [market_state EXCEPT
                            ![m] = [c \in AllInstruments |->
                                       IF c \in Instruments(m) THEN ms[c] ELSE NoQuote]]
                     /\ snapshot' = [snapshot EXCEPT ![m] = Snapshot(positions, trades, Owner(m))]
                     /\ last_result' = [last_result EXCEPT ![m] = NoResult]
                ELSE UNCHANGED <<pc, market_state, snapshot, last_result>>
             /\ last_decision' = [last_decision EXCEPT ![m] = NoDecision]
    /\ UNCHANGED <<engines, loop, write_failures, positions, trades, now, executed, direct_calls>>

\* One iteration of the loop of _execute_decisions, for a decision of the
\* given signal: the handler runs, its result is appended to the results and
\* portfolio_snapshot is read again when the result carries no error.  An
\* exception raised outside the try statement of the loop ends the cycle:
\* execute_trading_cycle returns success False, and what earlier decisions of
\* the cycle committed stays committed.
Execute(m, signal) ==
    /\ m \in engines
    /\ pc[m] = "executing"
    /\ \E coin \in DecisionKeys(m, signal), d \in Decisions(m, signal) :
         \E o \in {execute_decision(positions, trades, snapshot[m], Owner(m), coin, d,
                                    market_state[m], now)} :
             /\ o.trd # trades => Len(o.trd) + write_failures <= TradeBound(m)
             /\ positions' = o.pos
             /\ trades' = o.trd
             /\ IF o.raised
                THEN /\ pc' = [pc EXCEPT ![m] = "idle"]
                     /\ cycle_result' = [cycle_result EXCEPT ![m] = "failed"]
                     /\ market_state' = [market_state EXCEPT ![m] = IdleQuotes]
                     /\ snapshot' = [snapshot EXCEPT ![m] = NoSnapshot]
                     /\ last_decision' = [last_decision EXCEPT
                            ![m] = [coin |-> coin, decision |-> d]]
                     /\ last_result' = [last_result EXCEPT ![m] = NoResult]
                     /\ executed' = [executed EXCEPT ![m] = 0]
                ELSE /\ pc' = [pc EXCEPT ![m] = "appended"]
                     /\ last_decision' = [last_decision EXCEPT
                            ![m] = [coin |-> coin, decision |-> d]]
                     /\ last_result' = [last_result EXCEPT ![m] = o.res]
                     /\ snapshot' = [snapshot EXCEPT
                            ![m] = RefreshSnapshot(@, o.res, o.pos, o.trd, Owner(m))]
                     /\ executed' = [executed EXCEPT
                            ![m] = IF o.res.error = "" /\ o.res.signal # "hold"
                                   THEN @ + 1 ELSE @]
                     /\ UNCHANGED <<market_state, cycle_result>>
    /\ UNCHANGED <<engines, loop, write_failures, now, calls, direct_calls>>

ExecuteBuy(m) == Execute(m, "buy_to_enter")
ExecuteSell(m) == Execute(m, "sell_to_enter")
ExecuteClose(m) == Execute(m, "close_position")
ExecuteHold(m) == Execute(m, "hold")
ExecuteUnknown(m) == Execute(m, "")

\* The loop of _execute_decisions goes on to the next item of the decisions.
NextDecision(m) ==
    /\ m \in engines
    /\ pc[m] = "appended"
    /\ pc' = [pc EXCEPT ![m] = "executing"]
    /\ last_decision' = [last_decision EXCEPT ![m] = NoDecision]
    /\ last_result' = [last_result EXCEPT ![m] = NoResult]
    /\ UNCHANGED <<engines, loop, write_failures, positions, trades, now, market_state, snapshot, cycle_result, executed, calls, direct_calls>>

\* The end of execute_trading_cycle: the account value is recorded and the
\* results are returned to the caller.
CycleEnd(m) ==
    /\ m \in engines
    /\ pc[m] = "executing"
    /\ pc' = [pc EXCEPT ![m] = "idle"]
    /\ market_state' = [market_state EXCEPT ![m] = IdleQuotes]
    /\ snapshot' = [snapshot EXCEPT ![m] = NoSnapshot]
    /\ last_decision' = [last_decision EXCEPT ![m] = NoDecision]
    /\ last_result' = [last_result EXCEPT ![m] = NoResult]
    /\ cycle_result' = [cycle_result EXCEPT ![m] = "success"]
    /\ executed' = [executed EXCEPT ![m] = 0]
    /\ calls' = [calls EXCEPT ![m].account_value = 1]
    /\ UNCHANGED <<engines, loop, write_failures, positions, trades, now, direct_calls>>

\* Time passes (observed at the head of the loop and between cycles).
Tick ==
    /\ now < MaxNow
    /\ \A m \in Models : pc[m] # "appended"
    /\ now' \in (now + 1)..MaxNow
    /\ UNCHANGED <<engines, loop, write_failures, positions, trades, pc, market_state, snapshot, last_decision, last_result, cycle_result, executed, calls, direct_calls>>

Next ==
    \/ \E m \in Models : CycleStart(m)
    \/ \E m \in Models : ExecuteBuy(m)
    \/ \E m \in Models : ExecuteSell(m)
    \/ \E m \in Models : ExecuteClose(m)
    \/ \E m \in Models : ExecuteHold(m)
    \/ \E m \in Models : ExecuteUnknown(m)
    \/ \E m \in Models : NextDecision(m)
    \/ \E m \in Models : CycleEnd(m)
    \/ Tick

Spec == Init /\ [][Next]_vars

\* The deployments with one engine: a crypto model, an A-share model.
SpecCrypto == InitWith({1}) /\ [][Next]_vars
SpecAShare == InitWith({2}) /\ [][Next]_vars

\* Two A-share models that trade the same instrument, with engines of their
\* own whose cycles interleave.
SpecTwoModels == InitWith({2, 3}) /\ [][Next]_vars

\* An A-share model on the API's default capital, quoted at 50 and at 55.
SpecApiCapital == InitWith({3}) /\ [][Next]_vars

\* One A-share model whose engine has two callers, the scheduler loop and
\* the manual execute endpoint, with no lock between them: two cycles of the
\* same model interleave.
SpecSameModel == InitWith({5, 6}) /\ [][Next]_vars

\* A crypto model whose decisions enter one unit long or short and close by
\* side, with or without a quantity.
SpecCryptoSides == InitWith({4}) /\ [][Next]_vars

(***************************************************************************)
(* trading_loop                                                            *)
(***************************************************************************)
InitLoop ==
    /\ engines = {1, 2}
    /\ positions = {}
    /\ trades = <<>>
    /\ now = 0
    /\ pc = [m \in Models |-> "idle"]
    /\ market_state = [m \in Models |-> IdleQuotes]
    /\ snapshot = [m \in Models |-> NoSnapshot]
    /\ last_decision = [m \in Models |-> NoDecision]
    /\ last_result = [m \in Models |-> NoResult]
    /\ cycle_result = [m \in Models |-> "none"]
    /\ executed = [m \in Models |-> 0]
    /\ calls = [m \in Models |-> NoCalls]
    /\ fee_call = NoFeeCall
    /\ portfolio_call = NoPortfolioCall
    /\ calendar_call = NoCalendarCall
    /\ write_failures = 0
    /\ loop = [NoLoop EXCEPT !.pc = "sleeping"]

loop_frame == <<engines, positions, trades, pc, market_state, snapshot, last_decision,
                last_result, executed, calls, direct_calls, write_failures>>

\* while auto_trading: ... for model_id, engine in list(trading_engines.items())
LoopIterate ==
    /\ loop.pc = "sleeping"
    /\ loop.iteration < MaxIterations
    /\ engines # {}
    /\ loop' = Loop("iterating", loop.iteration + 1, SetToSeq(engines), 0,
                    [m \in Models |-> 0], {}, [m \in Models |-> ""])
    /\ UNCHANGED <<loop_frame, now, cycle_result>>

\* if not status.get('market_open', True): ... continue
LoopSkip(m) ==
    /\ loop.pc = "iterating"
    /\ loop.pending # <<>>
    /\ m = Head(loop.pending)
    /\ ~get_market_status(MarketType(m), now)
    /\ loop' = [loop EXCEPT !.pending = Tail(@), !.skipped = @ \cup {m}]
    /\ UNCHANGED <<loop_frame, now, cycle_result>>

\* result = engine.execute_trading_cycle(): the call is made; the loop has
\* no result of it yet.
LoopCall(m) ==
    /\ loop.pc = "iterating"
    /\ loop.pending # <<>>
    /\ m = Head(loop.pending)
    /\ get_market_status(MarketType(m), now)
    /\ loop' = [loop EXCEPT !.pc = "calling", !.current = m, !.invoked[m] = @ + 1]
    /\ cycle_result' = [cycle_result EXCEPT ![m] = "none"]
    /\ UNCHANGED <<loop_frame, now>>

\* The cycle the loop called begins.
LoopCycleStart(m) ==
    /\ loop.pc = "calling"
    /\ loop.current = m
    /\ cycle_result[m] = "none"
    /\ CycleStart(m)

\* A failed cycle or an exception ends the for loop.
LoopReturnBreaks(m) ==
    /\ loop.pc = "calling"
    /\ loop.current = m
    /\ pc[m] = "idle"
    /\ cycle_result[m] \in {"success", "market_closed", "failed"}
    /\ \E raised \in BOOLEAN :
          loop' = [loop EXCEPT !.pc = "iterating", !.current = 0,
                               !.pending = IF raised \/ cycle_result[m] = "failed"
                                           THEN <<>> ELSE Tail(@),
                               !.outcome[m] = IF raised THEN "exception"
                                              ELSE cycle_result[m]]
    /\ UNCHANGED <<loop_frame, now, cycle_result>>

\* The call returns, or an exception comes out of the body of the try
\* statement: the result or the exception is printed and the for loop goes on
\* to the next engine.
LoopReturn(m) ==
    /\ loop.pc = "calling"
    /\ loop.current = m
    /\ pc[m] = "idle"
    /\ cycle_result[m] \in {"success", "market_closed", "failed"}
    /\ \E raised \in BOOLEAN :
          loop' = [loop EXCEPT !.pc = "iterating", !.current = 0, !.pending = Tail(@),
                               !.outcome[m] = IF raised THEN "exception"
                                              ELSE cycle_result[m]]
    /\ UNCHANGED <<loop_frame, now, cycle_result>>

\* The for loop is over: time.sleep(180).
LoopSleep ==
    /\ loop.pc = "iterating"
    /\ loop.pending = <<>>
    /\ loop' = [loop EXCEPT !.pc = "sleeping"]
    /\ UNCHANGED <<loop_frame, now, cycle_result>>

NextLoop ==
    \/ LoopIterate
    \/ \E m \in Models : LoopSkip(m)
    \/ \E m \in Models : LoopCall(m)
    \/ \E m \in Models : LoopCycleStart(m)
    \/ \E m \in Models : ExecuteBuy(m)
    \/ \E m \in Models : ExecuteSell(m)
    \/ \E m \in Models : ExecuteClose(m)
    \/ \E m \in Models : ExecuteHold(m)
    \/ \E m \in Models : ExecuteUnknown(m)
    \/ \E m \in Models : NextDecision(m)
    \/ \E m \in Models : CycleEnd(m)
    \/ \E m \in Models : LoopReturn(m)
    \/ LoopSleep
    \/ Tick

\* The scheduler thread over a crypto engine and an A-share engine.
SpecLoop == InitLoop /\ [][NextLoop]_vars

\* The scheduler thread is not stopped and none of its statements blocks for
\* ever; the decisions of a cycle are finitely many, so the loop over them
\* reaches its end.
LoopFairness ==
    /\ WF_vars(LoopIterate)
    /\ WF_vars(LoopSleep)
    /\ \A m \in {1, 2} :
          /\ WF_vars(LoopSkip(m))
          /\ WF_vars(LoopCall(m))
          /\ WF_vars(LoopCycleStart(m))
          /\ WF_vars(LoopReturn(m))
          /\ WF_vars(NextDecision(m))
          /\ SF_vars(CycleEnd(m))

SpecLoopFair == SpecLoop /\ LoopFairness

(***************************************************************************)
(* Persistence calls that raise                                            *)
(***************************************************************************)
\* str(e) of the sqlite3.OperationalError a write may raise.
WriteError == "database is locked"

\* The write of a committing handler that raises: the first one
\* (update_position or close_position) or the second one (add_trade).
WriteFailures == {"position_write", "trade_write"}

\* One iteration of the loop of _execute_decisions in which a handler that
\* passed all its checks has one of its two writes raise.  Each write opens
\* its own connection and commits on its own, so the first one stays when
\* the second one raises; the except clause of the loop turns the exception
\* into the instrument's result and the snapshot is not read again.
ExecuteWriteFails(m, signal) ==
    /\ m \in engines
    /\ pc[m] = "executing"
    /\ write_failures < MaxWriteFailures
    /\ \E coin \in DecisionKeys(m, signal), d \in Decisions(m, signal),
          failure \in WriteFailures :
         \E o \in {execute_decision(positions, trades, snapshot[m], Owner(m), coin, d,
                                    market_state[m], now)} :
             /\ ~o.raised
             /\ o.res.error = ""
             /\ o.trd # trades
             /\ Len(o.trd) + write_failures <= TradeBound(m)
             /\ positions' = IF failure = "trade_write" THEN o.pos ELSE positions
             /\ trades' = trades
             /\ pc' = [pc EXCEPT ![m] = "appended"]
             /\ last_decision' = [last_decision EXCEPT
                    ![m] = [coin |-> coin, decision |-> d]]
             /\ last_result' = [last_result EXCEPT
                    ![m] = Rejected(positions, trades, coin, d.signal, WriteError).res]
    /\ write_failures' = write_failures + 1
    /\ UNCHANGED <<engines, loop, now, market_state, snapshot, cycle_result, executed, calls, direct_calls>>

NextWithWriteFailures ==
    \/ Next
    \/ \E m \in Models : \E signal \in {"buy_to_enter", "sell_to_enter", "close_position"} :
          ExecuteWriteFails(m, signal)

\* The crypto model of SpecCryptoSides on a database whose writes may raise.
SpecWriteFailures == InitWith({4}) /\ [][NextWithWriteFailures]_vars

(***************************************************************************)
(* _compute_a_share_fees as a function of its arguments and the fee model   *)
(***************************************************************************)
MaxFeeAmount == 30

\* Trade amounts from 0 to MaxFeeAmount thousand: below and above the amount
\* at which the commission leaves its minimum.
FeeAmounts == {R(1000 * k) : k \in 0..MaxFeeAmount}

\* The default fee model, and one whose configuration sets commission_min 0.
FeeModels == {DefaultFeeModel,
              FeeModel(commission_rate, R(0), transfer_rate, stamp_duty_rate)}

InitFees ==
    /\ engines = {}
    /\ positions = {}
    /\ trades = <<>>
    /\ now = 0
    /\ pc = [m \in Models |-> "idle"]
    /\ market_state = [m \in Models |-> IdleQuotes]
    /\ snapshot = [m \in Models |-> NoSnapshot]
    /\ last_decision = [m \in Models |-> NoDecision]
    /\ last_result = [m \in Models |-> NoResult]
    /\ cycle_result = [m \in Models |-> "none"]
    /\ executed = [m \in Models |-> 0]
    /\ calls = [m \in Models |-> NoCalls]
    /\ write_failures = 0
    /\ loop = NoLoop
    /\ \E fm \in FeeModels, a \in FeeAmounts, side \in {"buy", "sell"} :
          fee_call = [fee_model |-> fm, trade_amount |-> a, side |-> side, fees |-> NoFees]
    /\ portfolio_call = NoPortfolioCall
    /\ calendar_call = NoCalendarCall

ComputeFees ==
    /\ fee_call.fees = NoFees
    /\ fee_call' = [fee_call EXCEPT
           !.fees = a_share_fees(fee_call.fee_model, fee_call.trade_amount, fee_call.side)]
    /\ UNCHANGED <<engines, loop, write_failures, positions, trades, now, pc, market_state, snapshot, last_decision,
                   last_result, cycle_result, executed, calls, portfolio_call,
                   calendar_call>>

SpecFees == InitFees /\ [][ComputeFees]_vars

(***************************************************************************)
(* next_trading_day called on its own                                      *)
(***************************************************************************)
InitCalendar ==
    /\ engines = {}
    /\ positions = {}
    /\ trades = <<>>
    /\ now = 0
    /\ pc = [m \in Models |-> "idle"]
    /\ market_state = [m \in Models |-> IdleQuotes]
    /\ snapshot = [m \in Models |-> NoSnapshot]
    /\ last_decision = [m \in Models |-> NoDecision]
    /\ last_result = [m \in Models |-> NoResult]
    /\ cycle_result = [m \in Models |-> "none"]
    /\ executed = [m \in Models |-> 0]
    /\ calls = [m \in Models |-> NoCalls]
    /\ write_failures = 0
    /\ loop = NoLoop
    /\ fee_call = NoFeeCall
    /\ portfolio_call = NoPortfolioCall
    /\ \E market \in {"a_share", "crypto"}, d \in 0..MaxFromDate :
          calendar_call = [market_type |-> market, from_date |-> d, current |-> d,
                           returned |-> NoDate]

calendar_frame == <<engines, loop, write_failures, positions, trades, now, pc, market_state,
                    snapshot, last_decision, last_result, cycle_result, executed, calls,
                    fee_call, portfolio_call>>

\* if market_key != "a_share": return from_date + timedelta(days=1)
NextDayOtherMarket ==
    /\ calendar_call.returned = NoDate
    /\ calendar_call.market_type # "a_share"
    /\ calendar_call' = [calendar_call EXCEPT !.returned = calendar_call.from_date + 1]
    /\ UNCHANGED calendar_frame

\* One iteration of the while loop: current += timedelta(days=1), and current
\* is returned when it is a trading day.
NextDayStep ==
    /\ calendar_call.returned = NoDate
    /\ calendar_call.market_type = "a_share"
    /\ calendar_call' = [calendar_call EXCEPT
           !.current = @ + 1,
           !.returned = IF is_a_share_trading_day(calendar_call.current + 1)
                        THEN calendar_call.current + 1 ELSE NoDate]
    /\ UNCHANGED calendar_frame

NextCalendar == NextDayOtherMarket \/ NextDayStep

SpecCalendar == InitCalendar /\ [][NextCalendar]_vars

\* The call is not suspended: the loop makes its next step.
SpecCalendarFair == SpecCalendar /\ WF_vars(NextCalendar)

(***************************************************************************)
(* get_portfolio called on its own, as the API routes call it               *)
(***************************************************************************)
MaxPortfolioCalls == 2

EmptyLedger == [pos |-> {}, trd |-> <<>>]

\* The tables after one more decision of model m, processed in the first
\* session at the quote of 20.
LedgerAfter(ledger, m, d) ==
    LET coin == CHOOSE c \in Instruments(m) : TRUE
        o == execute_decision(ledger.pos, ledger.trd,
                              Snapshot(ledger.pos, ledger.trd, m), m, coin, d,
                              [c \in AllInstruments |-> Quote(R(20), None, None)], 0)
    IN  [pos |-> o.pos, trd |-> o.trd]

\* The tables two decisions can leave: an entry, and then another entry or a
\* close.
Ledgers(m) ==
    {LedgerAfter(LedgerAfter(EmptyLedger, m, d1), m, d2) :
        d1 \in BuyDecisions(m, "buy_to_enter"),
        d2 \in BuyDecisions(m, "buy_to_enter") \cup BuyDecisions(m, "sell_to_enter")
                   \cup CloseDecisions(m)}

InitPortfolio ==
    /\ \E m \in DefaultModels :
          /\ engines = {m}
          /\ \E ledger \in Ledgers(m) : positions = ledger.pos /\ trades = ledger.trd
          /\ \E px \in [AllInstruments -> {R(16), R(24)}] :
                portfolio_call = [model_id |-> m, current_prices |-> px, returned |-> <<>>]
    /\ now = 0
    /\ pc = [m \in Models |-> "idle"]
    /\ market_state = [m \in Models |-> IdleQuotes]
    /\ snapshot = [m \in Models |-> NoSnapshot]
    /\ last_decision = [m \in Models |-> NoDecision]
    /\ last_result = [m \in Models |-> NoResult]
    /\ cycle_result = [m \in Models |-> "none"]
    /\ executed = [m \in Models |-> 0]
    /\ calls = [m \in Models |-> NoCalls]
    /\ write_failures = 0
    /\ loop = NoLoop
    /\ fee_call = NoFeeCall
    /\ calendar_call = NoCalendarCall

\* The valuation written back: every row of the model marked to the current
\* price.
GetPortfolioMarking ==
    /\ Len(portfolio_call.returned) < MaxPortfolioCalls
    /\ portfolio_call' = [portfolio_call EXCEPT
           !.returned = Append(@, get_portfolio(positions, trades, portfolio_call.model_id,
                                                portfolio_call.current_prices))]
    /\ positions' = {IF p.model_id = portfolio_call.model_id
                     THEN [p EXCEPT !.avg_price = portfolio_call.current_prices[p.coin]]
                     ELSE p : p \in positions}
    /\ UNCHANGED <<engines, loop, write_failures, trades, now, pc, market_state, snapshot, last_decision,
                   last_result, cycle_result, executed, calls, fee_call, calendar_call>>

\* One call of get_portfolio for the model and the prices of portfolio_call:
\* SELECTs only.
GetPortfolio ==
    /\ Len(portfolio_call.returned) < MaxPortfolioCalls
    /\ portfolio_call' = [portfolio_call EXCEPT
           !.returned = Append(@, get_portfolio(positions, trades, portfolio_call.model_id,
                                                portfolio_call.current_prices))]
    /\ UNCHANGED <<engines, loop, write_failures, positions, trades, now, pc, market_state, snapshot, last_decision,
                   last_result, cycle_result, executed, calls, fee_call, calendar_call>>

SpecPortfolio == InitPortfolio /\ [][GetPortfolio]_vars

(***************************************************************************)
(* Properties                                                              *)
(***************************************************************************)
\* The step commits a trade of model m: one row is appended to trades.
Commits(m) ==
    /\ Len(trades') = Len(trades) + 1
    /\ trades'[Len(trades')].model_id = m

CommittedTrade == trades'[Len(trades')]

IsEntry(t) == t.signal \in {"buy_to_enter", "sell_to_enter"}

IsClose(t) == t.signal = "close_position"

Notional(t) == RMul(t.quantity, t.price)

\* The position row a trade of model m acts on, as a set.
RowOf(pos, m, t) == {p \in pos : SameKey(p, m, t.coin, MarketType(m), t.side)}

\* Current prices for a snapshot: every instrument has one.
PriceMaps == [AllInstruments -> {R(16), R(24)}]

\* C1: after any sequence of committed entries and closes, a snapshot of
\* get_portfolio taken with a current price for every open position has
\* total_value = cash + positions_value.
C1_TotalValueIsCashPlusPositionsValue ==
    \A m \in Models : \A px \in PriceMaps :
        LET pf == get_portfolio(positions, trades, m, px)
        IN  pf.total_value = RAdd(pf.cash, pf.positions_value)

\* C2: for every committed entry, the cash of the snapshot read right after
\* the entry is the cash of the snapshot read right before it, less the
\* notional of the trade, less the entry fee.
C2_EntryCashIsNotionalAndFee ==
    [][\A m \in Models :
          (Commits(m) /\ IsEntry(CommittedTrade)) =>
              Cash(positions', trades', m) =
                  RSub(RSub(Cash(positions, trades, m), Notional(CommittedTrade)),
                       CommittedTrade.fee)]_vars

C4_RecordedCashIsPortfolioCash ==
    [][\A m \in Models :
          Commits(m) => CommittedTrade.cash_balance = Cash(positions', trades', m)]_vars

\* C5: an entry that adds to an existing position of the same instrument and
\* side leaves the stored position with the quantities summed and the
\* quantity-weighted average price, in both markets.
C5_AddOnSumsQuantityAndWeightsPrice ==
    [][\A m \in Models :
          (Commits(m) /\ IsEntry(CommittedTrade)) =>
              LET t == CommittedTrade
              IN  \A p \in RowOf(positions, m, t) :
                     \E n \in RowOf(positions', m, t) :
                        /\ n.quantity = RAdd(p.quantity, t.quantity)
                        /\ n.avg_price =
                              RDiv(RAdd(RMul(p.quantity, p.avg_price), Notional(t)),
                                   RAdd(p.quantity, t.quantity))]_vars

\* C6: for every partial close of an equities position, the entry fee
\* allocated to the close plus the entry-fee total left on the remaining
\* position is the position's entry-fee total before the close.
C6_PartialCloseConservesEntryFee ==
    [][\A m \in Models :
          (MarketType(m) = "a_share" /\ Commits(m) /\ IsClose(CommittedTrade)) =>
              LET t == CommittedTrade
              IN  \A p \in RowOf(positions, m, t) : \A n \in RowOf(positions', m, t) :
                     /\ p.metadata # None
                     /\ n.metadata # None
                     /\ t.allocated_entry_fee # None
                     /\ RAdd(t.allocated_entry_fee, n.metadata) = p.metadata]_vars

\* A partial close of an equities position has just been committed: part of
\* the entry fees went to the close and part stays on the position.
C6_Witness ==
    /\ Len(trades) > 0
    /\ pc[trades[Len(trades)].model_id] = "appended"
    /\ MarketType(trades[Len(trades)].model_id) = "a_share"
    /\ IsClose(trades[Len(trades)])
    /\ RLt(R(0), trades[Len(trades)].allocated_entry_fee)
    /\ \E n \in RowOf(positions, trades[Len(trades)].model_id, trades[Len(trades)]) :
          RLt(R(0), n.metadata)

\* The entry fees of the trades that entered (m, coin, side) since the last
\* close of that key.
EntryFeesSinceLastClose(trd, m, coin, side) ==
    LET mine(i) == trd[i].model_id = m /\ trd[i].coin = coin /\ trd[i].side = side
        closes == {i \in 1..Len(trd) : mine(i) /\ IsClose(trd[i])}
        last == IF closes = {} THEN 0 ELSE CHOOSE i \in closes : \A j \in closes : j <= i
    IN  RSum([i \in 1..Len(trd) |->
                 IF i > last /\ mine(i) /\ IsEntry(trd[i]) THEN trd[i].fee ELSE R(0)])

\* C7: for every committed close, the realized P&L stored on the trade record
\* is grossPnl - exitFee - allocatedEntryFee, the gross being (price - avgPrice)
\* x closeQuantity for a long and the opposite for a short, and the allocation
\* being the position's accumulated entry fees x closeQuantity /
\* positionQuantity.
C7_ClosePnlNetOfAllocatedEntryFee ==
    [][\A m \in Models :
          (Commits(m) /\ IsClose(CommittedTrade)) =>
              LET t == CommittedTrade
              IN  \E p \in RowOf(positions, m, t) :
                     LET gross == IF p.side = "long"
                                  THEN RMul(RSub(t.price, p.avg_price), t.quantity)
                                  ELSE RMul(RSub(p.avg_price, t.price), t.quantity)
                         entry_fee_total ==
                             IF p.metadata # None THEN p.metadata
                             ELSE EntryFeesSinceLastClose(trades, m, t.coin, t.side)
                         allocated == RDiv(RMul(entry_fee_total, t.quantity), p.quantity)
                     IN  t.pnl = RSub(RSub(gross, t.fee), allocated)]_vars

\* The step runs one iteration of the loop of _execute_decisions for model m.
Executes(m) == pc[m] = "executing" /\ pc'[m] = "appended"

\* The first trading day after day d, counted on the calendar.
FirstTradingDayAfter(d) ==
    CHOOSE x \in (d + 1)..(d + 15) :
        /\ is_a_share_trading_day(x)
        /\ \A y \in (d + 1)..(x - 1) : ~is_a_share_trading_day(y)

\* The long position of model m in the instrument of its current decision.
HeldByDecision(m) ==
    {p \in positions : p.model_id = m /\ p.coin = last_decision'[m].coin /\ p.side = "long"}

\* C8: a close of an equities position is rejected whenever the current
\* trading date is earlier than the position's stored earliest-disposal date,
\* and the rejected close leaves positions and trades as they were; a position
\* bought on day D is locked on day D, its earliest-disposal date being the
\* next trading day; from that day on the close is not rejected by the lock,
\* and a close of the whole position at the quoted price in an open session
\* is committed.
C8_SettlementLockRejectsClose ==
    [][\A m \in Models :
          (/\ MarketType(m) = "a_share"
           /\ Executes(m)
           /\ last_decision'[m].decision.signal = "close_position") =>
              \A p \in HeldByDecision(m) :
                 /\ DayOf(now) < p.next_sellable_date =>
                       /\ last_result'[m].error # ""
                       /\ positions' = positions
                       /\ trades' = trades
                 /\ p.last_buy_date = DayOf(now) => DayOf(now) < p.next_sellable_date
                 /\ p.next_sellable_date = FirstTradingDayAfter(p.last_buy_date)
                 /\ p.next_sellable_date <= DayOf(now) =>
                       /\ last_result'[m].error # "T+1 rule"
                       /\ (/\ get_market_status("a_share", now)
                           /\ last_decision'[m].decision.quantity = None
                           /\ last_decision'[m].decision.price = None) => Commits(m)]_vars

\* A close has just been rejected by the lock on the day the position was
\* bought.
C8_Witness ==
    \E m \in engines :
        /\ pc[m] = "appended"
        /\ last_decision[m].decision.signal = "close_position"
        /\ last_result[m].error = "T+1 rule"
        /\ \E p \in positions :
              /\ p.model_id = m
              /\ p.coin = last_decision[m].coin
              /\ p.last_buy_date = DayOf(now)

\* A close has just been committed on the first trading day after the buy.
C8_ClosedOnNextTradingDay ==
    /\ Len(trades) = 2
    /\ pc[trades[2].model_id] = "appended"
    /\ trades[1].signal = "buy_to_enter"
    /\ MarketType(trades[1].model_id) = "a_share"
    /\ IsClose(trades[2])
    /\ trades[2].trade_date = FirstTradingDayAfter(trades[1].trade_date)

\* C9: a buy on trading day D into an equities position (whose lock may have
\* passed) stores D as the day of the last buy and the next trading day after
\* D as the earliest-disposal date, and every close of that instrument
\* attempted on day D after the buy is rejected and changes nothing.
C9_BuyRelocksPosition ==
    [][\A m \in Models :
          MarketType(m) = "a_share" =>
              /\ (Commits(m) /\ CommittedTrade.signal = "buy_to_enter") =>
                    /\ RowOf(positions', m, CommittedTrade) # {}
                    /\ \A n \in RowOf(positions', m, CommittedTrade) :
                          /\ n.last_buy_date = DayOf(now)
                          /\ n.next_sellable_date = FirstTradingDayAfter(DayOf(now))
              /\ (/\ Executes(m)
                  /\ last_decision'[m].decision.signal = "close_position"
                  /\ \E i \in 1..Len(trades) :
                        /\ trades[i].model_id = m
                        /\ trades[i].coin = last_decision'[m].coin
                        /\ trades[i].signal = "buy_to_enter"
                        /\ trades[i].trade_date = DayOf(now)) =>
                    /\ last_result'[m].error # ""
                    /\ positions' = positions
                    /\ trades' = trades]_vars

\* A position bought on one day and unlocked on a later day was bought into
\* again on that later day, and a close on that same day has just been
\* rejected by the lock.
C9_Witness ==
    \E m \in engines :
        /\ pc[m] = "appended"
        /\ last_decision[m].decision.signal = "close_position"
        /\ last_result[m].error = "T+1 rule"
        /\ Len(trades) = 2
        /\ \A i \in 1..2 :
              /\ trades[i].model_id = m
              /\ trades[i].coin = last_decision[m].coin
              /\ trades[i].signal = "buy_to_enter"
        /\ FirstTradingDayAfter(trades[1].trade_date) <= trades[2].trade_date
        /\ trades[2].trade_date = DayOf(now)

MaxLots == 10

LotErrors == {"Quantity must be an integer number of shares",
              "Quantity must be at least lot_size shares",
              "Quantity must be a multiple of lot_step"}

\* The quantity q is within distance tol of the board lot multiple k.
NearLot(q, k, tol) ==
    /\ q # None
    /\ k * lot_step >= lot_size
    /\ RLe(RAbs(RSub(q, R(k * lot_step))), tol)

\* The lot rule of an equities buy, with the tolerance tol on the distance of
\* the quantity from a whole number of shares.
LotRule(tol) ==
    \A m \in Models :
        (/\ MarketType(m) = "a_share"
         /\ Executes(m)
         /\ last_decision'[m].decision.signal = "buy_to_enter") =>
            LET q == last_decision'[m].decision.quantity
                conforming == \E k \in 1..MaxLots : NearLot(q, k, tol)
            IN  /\ Commits(m) =>
                      \E k \in 1..MaxLots :
                          NearLot(q, k, tol) /\ CommittedTrade.quantity = R(k * lot_step)
                /\ ~conforming =>
                      /\ last_result'[m].error # ""
                      /\ positions' = positions
                      /\ trades' = trades
                      /\ Cash(positions', trades', m) = Cash(positions, trades, m)
                /\ conforming => last_result'[m].error \notin LotErrors

\* C10, as the code has it: an equities buy_to_enter is accepted only if its
\* quantity is within 0.0001 of a whole number of shares that is at least
\* lotSize and a multiple of lotStep, and that whole number is the quantity
\* executed; any other quantity is rejected without changing positions,
\* trades or cash, and such a quantity is not rejected on lot grounds.
C10_LotRuleWithTolerance == [][LotRule(QuantityTolerance)]_vars

\* C10 as stated: an equities buy_to_enter is accepted only if its quantity is
\* a positive integer that is at least lotSize and an exact multiple of
\* lotStep; any other quantity is rejected without changing positions, trades
\* or cash, and a conforming quantity is not rejected on lot grounds.
C10_LotRuleExact == [][LotRule(R(0))]_vars

\* A buy of 250 shares has just been rejected for not being a multiple of the
\* lot step.
C10_Witness ==
    \E m \in engines :
        /\ MarketType(m) = "a_share"
        /\ pc[m] = "appended"
        /\ last_decision[m].decision.signal = "buy_to_enter"
        /\ last_decision[m].decision.quantity = R(250)
        /\ last_result[m].error = "Quantity must be a multiple of lot_step"
        /\ positions = {}

\* A buy of 300 shares has just been committed.
C10_ConformingAccepted ==
    \E m \in engines :
        /\ MarketType(m) = "a_share"
        /\ pc[m] = "appended"
        /\ last_decision[m].decision.signal = "buy_to_enter"
        /\ last_decision[m].decision.quantity = R(300)
        /\ last_result[m].error = ""
        /\ Len(trades) > 0
        /\ trades[Len(trades)].quantity = R(300)

\* The quantity q is within distance tol of a whole number of shares.
NearWhole(q, tol) == q # None /\ RLe(RAbs(RSub(q, R(Round(q)))), tol)

\* The lot rule of an equities close: a request counts as a full close when
\* it is omitted or, being within tol of a whole number, is at least the
\* available quantity (whole = TRUE), or when it is omitted or at least the
\* available quantity whatever its fraction (whole = FALSE).
CloseLotRule(tol, whole) ==
    \A m \in Models :
        (/\ MarketType(m) = "a_share"
         /\ Executes(m)
         /\ last_decision'[m].decision.signal = "close_position") =>
            \A p \in HeldByDecision(m) :
               LET q == last_decision'[m].decision.quantity
                   full == \/ q = None
                           \/ /\ q # None
                              /\ whole => NearWhole(q, tol)
                              /\ IF whole THEN RLe(p.quantity, R(Round(q)))
                                          ELSE RLe(p.quantity, q)
                   aligned == /\ NearWhole(q, tol)
                              /\ Round(q) % lot_step = 0
               IN  /\ Commits(m) =>
                         IF full THEN CommittedTrade.quantity = p.quantity
                         ELSE /\ aligned
                              /\ CommittedTrade.quantity = R(Round(q))
                              /\ RLt(CommittedTrade.quantity, p.quantity)
                   /\ full => last_result'[m].error \notin LotErrors
                   /\ (~full /\ ~aligned) =>
                         /\ last_result'[m].error # ""
                         /\ positions' = positions
                         /\ trades' = trades

\* C11, as the code has it: for an equities close, when the requested
\* quantity is omitted, or is within 0.0001 of a whole number that is at least
\* the available quantity, the executed quantity is the full available
\* quantity and the request is not rejected on lot grounds; a request that is
\* smaller is accepted only if it is within 0.0001 of a multiple of lotStep,
\* which is then the executed quantity; any other request (a fraction of a
\* share, whatever its size) is rejected and changes nothing.
C11_CloseLotRuleWithTolerance == [][CloseLotRule(QuantityTolerance, TRUE)]_vars

\* C11 as stated: when the requested quantity is omitted or is greater than or
\* equal to the available quantity, the executed quantity is the full
\* available quantity and the request is not rejected on lot grounds; when it
\* is smaller it is accepted only if it is a multiple of lotStep.
C11_CloseLotRuleExact == [][CloseLotRule(R(0), FALSE)]_vars

\* A close of 400 shares requested on a position of 300 has just been
\* committed for the 300 shares held.
C11_Witness ==
    \E m \in engines :
        /\ MarketType(m) = "a_share"
        /\ pc[m] = "appended"
        /\ last_decision[m].decision.signal = "close_position"
        /\ last_decision[m].decision.quantity = R(400)
        /\ Len(trades) = 2
        /\ trades[1].signal = "buy_to_enter"
        /\ trades[1].quantity = R(300)
        /\ IsClose(trades[2])
        /\ trades[2].quantity = R(300)
        /\ positions = {}

LimitUpError == "Price exceeds daily limit-up"

LimitDownError == "Price below daily limit-down"

\* C12: an equities buy or close whose execution price (the price of the
\* decision, or else the price of the quote) is above limitUp x (1 +
\* tolerance) or below limitDown x (1 - tolerance) of the instrument's quote is
\* rejected and changes no position, trade or cash; the error is the
\* price-limit error whenever the order reaches the pricing step (open
\* session, conforming quantity on a buy, a position held and the whole of it
\* requested on a close); a price inside the band is never rejected by the
\* guard.
C12_PriceLimitGuard ==
    [][\A m \in Models :
          (/\ MarketType(m) = "a_share"
           /\ Executes(m)
           /\ last_decision'[m].decision.leverage = 1
           /\ last_decision'[m].decision.signal \in {"buy_to_enter", "close_position"}) =>
              LET d == last_decision'[m].decision
                  quote == market_state[m][last_decision'[m].coin]
                  price == IF d.price # None THEN d.price ELSE quote.price
                  up == quote.limit_up_price
                  down == quote.limit_down_price
                  above == up # None /\ RLt(RMul(up, RAdd(R(1), price_limit_tolerance)), price)
                  below == down # None
                           /\ RLt(price, RMul(down, RSub(R(1), price_limit_tolerance)))
                  priced == /\ get_market_status("a_share", now)
                            /\ IF d.signal = "buy_to_enter"
                               THEN \E k \in 1..MaxLots : NearLot(d.quantity, k, QuantityTolerance)
                               ELSE d.quantity = None /\ HeldByDecision(m) # {}
                  error == last_result'[m].error
              IN  /\ (above \/ below) =>
                        /\ error # ""
                        /\ positions' = positions
                        /\ trades' = trades
                        /\ Cash(positions', trades', m) = Cash(positions, trades, m)
                  /\ (above /\ priced) => error = LimitUpError
                  /\ (below /\ priced) => error = LimitDownError
                  /\ ~above => error # LimitUpError
                  /\ ~below => error # LimitDownError]_vars

\* A buy at 24 against a limit-up of 22 has just been rejected by the guard.
C12_Witness ==
    \E m \in engines :
        /\ MarketType(m) = "a_share"
        /\ pc[m] = "appended"
        /\ last_decision[m].decision.signal = "buy_to_enter"
        /\ last_decision[m].decision.price = R(24)
        /\ market_state[m][last_decision[m].coin].limit_up_price = R(22)
        /\ last_result[m].error = LimitUpError
        /\ positions = {}
        /\ trades = <<>>

\* A close at 16 against a limit-down of 18 has just been rejected by the
\* guard.
C12_CloseBelowLimitDown ==
    \E m \in engines :
        /\ MarketType(m) = "a_share"
        /\ pc[m] = "appended"
        /\ last_decision[m].decision.signal = "close_position"
        /\ last_decision[m].decision.price = R(16)
        /\ market_state[m][last_decision[m].coin].limit_down_price = R(18)
        /\ last_result[m].error = LimitDownError

\* A buy at 22, the limit-up itself, has just been committed.
C12_AtLimitAccepted ==
    \E m \in engines :
        /\ MarketType(m) = "a_share"
        /\ pc[m] = "appended"
        /\ last_decision[m].decision.signal = "buy_to_enter"
        /\ last_decision[m].decision.price = R(22)
        /\ market_state[m][last_decision[m].coin].limit_up_price = R(22)
        /\ last_result[m].error = ""
        /\ Len(trades) > 0

\* C13: when an equities quote carries no limit-up and no limit-down price,
\* an order that passes the price-limit guard has an UnknownLimitBand warning
\* in its execution result.
C13_UnknownLimitBandSurfaced ==
    [][\A m \in Models :
          (/\ MarketType(m) = "a_share"
           /\ Executes(m)
           /\ last_decision'[m].decision.signal \in {"buy_to_enter", "close_position"}
           /\ market_state[m][last_decision'[m].coin].limit_up_price = None
           /\ market_state[m][last_decision'[m].coin].limit_down_price = None
           /\ Commits(m)) =>
              "UnknownLimitBand" \in ResultWarnings(last_result'[m])]_vars

CashError == "Insufficient cash (including fees)"

\* The cash an entry must find, from its trade record: the notional divided
\* by lev, plus the fee.
RequiredCash(t, lev) == RAdd(RDiv(Notional(t), R(lev)), t.fee)

C14_EquitiesCashExhausted ==
    \E m \in engines :
        /\ MarketType(m) = "a_share"
        /\ pc[m] = "appended"
        /\ last_decision[m].decision.signal = "buy_to_enter"
        /\ last_result[m].error = CashError
        /\ Len(trades) > 0

\* C15: within one trading cycle the decisions are processed one after
\* another, and the cash and the positions used to validate a decision are
\* those of the ledger with every mutation committed earlier in the cycle: the
\* snapshot the handlers read agrees with the tables at every iteration, a
\* close finds the long position whenever the tables hold one, and is refused
\* whenever they hold no position in the instrument.
C15_LaterDecisionsSeeEarlierCommits ==
    [][\A m \in Models :
          Executes(m) =>
              /\ snapshot[m].cash = Cash(positions, trades, m)
              /\ snapshot[m].positions = {p \in positions : p.model_id = m}
              /\ snapshot'[m].cash = Cash(positions', trades', m)
              /\ snapshot'[m].positions = {p \in positions' : p.model_id = m}
              /\ (/\ last_decision'[m].decision.signal = "close_position"
                  /\ last_decision'[m].coin \in Instruments(m)
                  /\ last_decision'[m].decision.leverage = 1) =>
                    /\ HeldByDecision(m) # {} =>
                            last_result'[m].error # "Position not found"
                    /\ {p \in positions :
                           p.model_id = m /\ p.coin = last_decision'[m].coin} = {} =>
                            last_result'[m].error # ""]_vars

\* Two decisions of one cycle have been committed: an entry, and then the
\* close of the position that entry opened.
C15_Witness ==
    \E m \in engines :
        /\ pc[m] = "appended"
        /\ executed[m] = 2
        /\ Len(trades) = 2
        /\ IsEntry(trades[1])
        /\ IsClose(trades[2])
        /\ trades[1].coin = trades[2].coin
        /\ positions = {}

\* C16: whatever the decisions map holds, a failure on one instrument is
\* reported in that instrument's result, the remaining instruments are still
\* processed and the cycle returns success = true: once the processing of the
\* decisions has begun, the cycle does not end in failure.
C16_DecisionFailuresStayInResults ==
    [][\A m \in Models : pc[m] = "executing" => cycle_result'[m] # "failed"]_vars

\* The failures the loop does keep to the instrument's result: an unknown
\* instrument, an unknown signal, a missing quantity, and on the crypto market
\* a leverage that is not a number.
C16_CaughtFailureReported ==
    \E m \in engines :
        /\ pc[m] = "appended"
        /\ last_decision[m].decision.malformed = "leverage_not_numeric"
        /\ last_result[m].error = "invalid literal for int()"
        /\ cycle_result[m] = "running"

\* A step in which model m begins a trading cycle.
StartsCycle(m) ==
    /\ pc[m] = "idle"
    /\ \/ pc'[m] # "idle"
       \/ calls'[m] # calls[m]
       \/ cycle_result'[m] # cycle_result[m]

\* Model m begins a trading cycle while the equities market is closed.
ClosedAtStart(m) ==
    /\ StartsCycle(m)
    /\ MarketType(m) = "a_share"
    /\ ~get_market_status("a_share", now)

\* What a cycle begun on a closed equities market never does: it processes no
\* decision, calls the decision source not once, and writes no position,
\* trade, conversation or account-value row.
ClosedCycleWritesNothing(m) ==
    /\ pc'[m] = "idle"
    /\ calls'[m].decide = 0
    /\ calls'[m].conversation = 0
    /\ calls'[m].account_value = 0
    /\ positions' = positions
    /\ trades' = trades

\* C17, as the code has it: if the equities market is closed when a cycle
\* starts and the market-data call has returned a market state, the cycle
\* returns success = true with an empty executions list; whether it has or
\* not, the decision source is never called and no position, trade,
\* conversation or account-value row is written.
C17_ClosedMarketSkipsCycle ==
    [][\A m \in Models :
          ClosedAtStart(m) =>
              /\ ClosedCycleWritesNothing(m)
              /\ calls'[m].fetched = "ok" => cycle_result'[m] = "market_closed"]_vars

\* C17, as stated: if the equities market is closed when a cycle starts, the
\* cycle returns success = true with an empty executions list, the decision
\* source is never called and no position, trade, conversation or
\* account-value row is written.
C17_ClosedMarketAlwaysSucceeds ==
    [][\A m \in Models :
          ClosedAtStart(m) =>
              /\ ClosedCycleWritesNothing(m)
              /\ cycle_result'[m] = "market_closed"]_vars

\* A cycle has just returned on a closed market, with a position held.
C17_Witness ==
    \E m \in engines :
        /\ MarketType(m) = "a_share"
        /\ ~get_market_status("a_share", now)
        /\ pc[m] = "idle"
        /\ cycle_result[m] = "market_closed"
        /\ calls[m] = Calls(1, "ok", 0, "", 0, 0)
        /\ \E p \in positions : p.model_id = m

\* C18: if the market-data call returns no market state or raises, or the
\* decision source raises, the cycle returns success = false, no position or
\* trade record is changed, and the failed collaborator is not called again:
\* the market-data fetch and make_decision are each called at most once in a
\* cycle.
C18_CollaboratorFailureAbortsCycle ==
    [][\A m \in Models :
          /\ calls'[m].fetch <= 1
          /\ calls'[m].decide <= 1
          /\ (/\ StartsCycle(m)
              /\ \/ calls'[m].fetched \in {"empty", "raises"}
                 \/ calls'[m].decided = "raises") =>
                /\ cycle_result'[m] = "failed"
                /\ pc'[m] = "idle"
                /\ positions' = positions
                /\ trades' = trades
                /\ calls'[m].fetch = 1
                /\ calls'[m].decide = (IF calls'[m].decided = "raises" THEN 1 ELSE 0)]_vars

\* A cycle has just failed on the decision source, with a position held.
C18_Witness ==
    \E m \in engines :
        /\ pc[m] = "idle"
        /\ cycle_result[m] = "failed"
        /\ calls[m] = Calls(1, "ok", 1, "raises", 0, 0)
        /\ \E p \in positions : p.model_id = m

\* A cycle has just failed on an empty market state, with a position held.
C18_EmptyMarketState ==
    \E m \in engines :
        /\ pc[m] = "idle"
        /\ cycle_result[m] = "failed"
        /\ calls[m] = Calls(1, "empty", 0, "", 0, 0)
        /\ \E p \in positions : p.model_id = m

LeverageError == "Leverage is not supported for A-share trades"

ShortError == "Short selling not supported in A-share market"

\* C19: in an equities model every stored position is long with leverage 1,
\* whatever the signals have been; a sell_to_enter and a decision whose
\* leverage is a number other than 1 are rejected, and the rejection changes
\* no position, no trade and no cash.
C19_EquitiesLongUnlevered ==
    [][\A m \in Models :
          MarketType(m) = "a_share" =>
              /\ \A p \in positions' :
                    p.model_id = m => p.side = "long" /\ p.leverage = 1
              /\ \A i \in 1..Len(trades') :
                    trades'[i].model_id = m =>
                        trades'[i].side = "long" /\ trades'[i].leverage = 1
              /\ (/\ Executes(m)
                  /\ \/ last_decision'[m].decision.signal = "sell_to_enter"
                     \/ last_decision'[m].decision.leverage # 1) =>
                    /\ last_result'[m].error # ""
                    /\ last_decision'[m].coin \in Instruments(m) =>
                          last_result'[m].error \in {LeverageError, ShortError}
                    /\ positions' = positions
                    /\ trades' = trades
                    /\ Cash(positions', trades', m) = Cash(positions, trades, m)
                    /\ snapshot'[m] = snapshot[m]]_vars

\* A buy with leverage 2 has just been rejected in an equities model that
\* holds a position.
C19_Witness ==
    \E m \in engines :
        /\ MarketType(m) = "a_share"
        /\ pc[m] = "appended"
        /\ last_decision[m].decision.signal = "buy_to_enter"
        /\ last_decision[m].decision.leverage = 2
        /\ last_result[m].error = LeverageError
        /\ \E p \in positions : p.model_id = m /\ p.side = "long" /\ p.leverage = 1

\* A sell_to_enter has just been rejected in an equities model.
C19_ShortRejected ==
    \E m \in engines :
        /\ MarketType(m) = "a_share"
        /\ pc[m] = "appended"
        /\ last_decision[m].decision.signal = "sell_to_enter"
        /\ last_decision[m].decision.leverage = 1
        /\ last_result[m].error = ShortError

\* The rows of model m for the instrument and the side of trade t.
RowsOfTrade(pos, m, t) ==
    {p \in pos : p.model_id = m /\ p.coin = t.coin /\ p.side = t.side}

\* C20: every stored position has a quantity above zero, after any sequence
\* of operations; a close that brings the remaining quantity to zero deletes
\* the row, and a partial close leaves the row with the reduced quantity,
\* which is positive.
C20_StoredQuantityPositive ==
    [][/\ \A p \in positions' : RLt(R(0), p.quantity)
       /\ \A m \in Models :
             (Commits(m) /\ IsClose(CommittedTrade)) =>
                 LET t == CommittedTrade
                     before == RowsOfTrade(positions, m, t)
                     after == RowsOfTrade(positions', m, t)
                 IN  /\ Cardinality(before) = 1
                     /\ \A b \in before :
                           /\ RLe(t.quantity, b.quantity)
                           /\ IF t.quantity = b.quantity
                              THEN after = {}
                              ELSE /\ Cardinality(after) = 1
                                   /\ \A a \in after :
                                         /\ a.quantity = RSub(b.quantity, t.quantity)
                                         /\ RLt(R(0), a.quantity)]_vars

\* A close of the whole position has just been committed, and its row is
\* gone.
C20_Witness ==
    \E m \in engines :
        /\ pc[m] = "appended"
        /\ last_result[m].signal = "close_position"
        /\ last_result[m].error = ""
        /\ Len(trades) >= 2
        /\ IsClose(trades[Len(trades)])
        /\ RowsOfTrade(positions, m, trades[Len(trades)]) = {}

\* A close of 100 shares out of 300 has just been committed, and the row
\* holds 200.
C20_PartialCloseKeepsRow ==
    \E m \in engines :
        /\ pc[m] = "appended"
        /\ last_result[m].signal = "close_position"
        /\ last_result[m].error = ""
        /\ last_result[m].quantity = R(100)
        /\ \E p \in positions : p.model_id = m /\ p.quantity = R(200)

\* C21: a hold for an allowed instrument always succeeds, whatever other
\* fields the decision contains: its result carries no error, and no position,
\* trade record or cash changes.
C21_HoldAlwaysSucceeds ==
    [][\A m \in Models :
          (/\ Executes(m)
           /\ last_decision'[m].decision.signal = "hold"
           /\ last_decision'[m].coin \in Instruments(m)) =>
              /\ last_result'[m].error = ""
              /\ positions' = positions
              /\ trades' = trades
              /\ Cash(positions', trades', m) = Cash(positions, trades, m)]_vars

\* The holds that do succeed: one that carries a quantity and a price beside
\* the signal.
C21_HoldWithFieldsSucceeds ==
    \E m \in engines :
        /\ pc[m] = "appended"
        /\ last_decision[m].decision.signal = "hold"
        /\ last_decision[m].decision.quantity = R(100)
        /\ last_result[m].signal = "hold"
        /\ last_result[m].error = ""

Signals == {"buy_to_enter", "sell_to_enter", "close_position", "hold"}

\* A step in which the loop of _execute_decisions takes up a decision of
\* model m, whether it ends in a result or in an exception.
Processes(m) == pc[m] = "executing" /\ last_decision'[m] # NoDecision

\* C22: a decision whose signal is not one of buy_to_enter, sell_to_enter,
\* close_position and hold, a missing or empty signal included, is rejected
\* with an unknown-signal error in the instrument's result, and changes no
\* position, trade record or cash.
C22_UnknownSignalRejected ==
    [][\A m \in Models :
          (/\ Processes(m)
           /\ last_decision'[m].coin \in Instruments(m)
           /\ last_decision'[m].decision.malformed # "not_object"
           /\ last_decision'[m].decision.signal \notin Signals) =>
              /\ pc'[m] = "appended"
              /\ last_result'[m].error = "Unknown signal"
              /\ positions' = positions
              /\ trades' = trades
              /\ Cash(positions', trades', m) = Cash(positions, trades, m)]_vars

\* The unknown signals the loop does report: a missing or empty signal on an
\* allowed instrument, with a position held.
C22_EmptySignalReported ==
    \E m \in engines :
        /\ pc[m] = "appended"
        /\ last_decision[m].coin \in Instruments(m)
        /\ last_decision[m].decision.signal = ""
        /\ last_result[m].error = "Unknown signal"
        /\ cycle_result[m] = "running"
        /\ \E p \in positions : p.model_id = m

\* C23: the equities fee for a trade of positive notional is commission =
\* max(notional x commissionRate, commissionMin), transferFee = notional x
\* transferRate, stampDuty = notional x stampDutyRate on sells and 0 on buys,
\* total = commission + transferFee + stampDuty; for zero notional the
\* commission is 0.
C23_EquitiesFeeFormula ==
    fee_call.fees # NoFees =>
        LET fm == fee_call.fee_model
            notional == fee_call.trade_amount
            fees == fee_call.fees
        IN  /\ fees.commission =
                  (IF RLt(R(0), notional)
                   THEN RMax(RMul(notional, fm.commission_rate), fm.commission_min)
                   ELSE R(0))
            /\ fees.transfer_fee = RMul(notional, fm.transfer_rate)
            /\ fees.stamp_duty =
                  (IF fee_call.side = "sell" THEN RMul(notional, fm.stamp_duty_rate)
                                             ELSE R(0))
            /\ fees.total = RAdd(RAdd(fees.commission, fees.transfer_fee), fees.stamp_duty)

\* A sale of 20000 under the default fee model: commission 6, above the
\* minimum, transfer fee 0.2, stamp duty 20.
C23_Witness ==
    /\ fee_call.fee_model = DefaultFeeModel
    /\ fee_call.trade_amount = R(20000)
    /\ fee_call.side = "sell"
    /\ fee_call.fees.commission = R(6)
    /\ fee_call.fees.transfer_fee = Frac(1, 5)
    /\ fee_call.fees.stamp_duty = R(20)
    /\ fee_call.fees.total = Frac(131, 5)

\* A trade of no amount under the default fee model: no commission.
C23_ZeroNotional ==
    /\ fee_call.fee_model = DefaultFeeModel
    /\ fee_call.trade_amount = R(0)
    /\ fee_call.fees.commission = R(0)
    /\ fee_call.fees.total = R(0)

\* The first buy of a model on the API's default capital: 100 shares at 50.
ExampleBuy(t) ==
    /\ t.signal = "buy_to_enter"
    /\ t.quantity = R(100)
    /\ t.price = R(50)

\* The sale of those 100 shares at 55 on the next session.
ExampleSale(bought, t) ==
    /\ t.signal = "close_position"
    /\ t.quantity = R(100)
    /\ t.price = R(55)
    /\ t.trade_date = FirstTradingDayAfter(bought.trade_date)

\* The worked example with a fee of `fee' thousandths on the sale and a net
\* P&L of `net' thousandths.
ExampleWith(fee, net) ==
    /\ (/\ Commits(3)
        /\ trades = <<>>
        /\ ExampleBuy(CommittedTrade)) =>
           /\ CommittedTrade.fee = Frac(5050, 1000)
           /\ CommittedTrade.cash_balance = Frac(94994950, 1000)
           /\ Cash(positions', trades', 3) = Frac(94994950, 1000)
    /\ (/\ Commits(3)
        /\ Len(trades) = 1
        /\ ExampleBuy(trades[1])
        /\ ExampleSale(trades[1], CommittedTrade)) =>
           /\ CommittedTrade.fee = Frac(fee, 1000)
           /\ CommittedTrade.allocated_entry_fee = Frac(5050, 1000)
           /\ CommittedTrade.pnl = Frac(net, 1000)
           /\ positions' = {}

\* C24, as the code has it: with the default equities fees and an initial
\* capital of 100000, buying 100 shares at 50.00 charges a fee of 5.05 and
\* leaves cash 94994.95; selling all 100 at 55.00 on the next session charges
\* a fee of 10.555 (commission 5, transfer fee 0.055, stamp duty 5.5),
\* allocates the entry fee of 5.05, records a net P&L of 484.395 and leaves no
\* position.
C24_WorkedExample == [][ExampleWith(10555, 484395)]_vars

\* C24, as stated: the sale charges a fee of 10.605 and records a net P&L of
\* 484.345.
C24_WorkedExampleAsStated == [][ExampleWith(10605, 484345)]_vars

\* The example has run: bought at 50, sold at 55 on the next session, no
\* position left.
C24_Witness ==
    /\ 3 \in engines
    /\ Len(trades) = 2
    /\ ExampleBuy(trades[1])
    /\ ExampleSale(trades[1], trades[2])
    /\ positions = {}
    /\ trades[2].pnl = Frac(484395, 1000)

\* C25: an execution that commits (a buy_to_enter, sell_to_enter or
\* close_position result without an error) appends exactly one trade record;
\* a rejected execution and a hold append none; and no step of an engine
\* modifies or deletes a trade record that exists.
C25_TradesAppendOnly ==
    [][/\ Len(trades') \in {Len(trades), Len(trades) + 1}
       /\ SubSeq(trades', 1, Len(trades)) = trades
       /\ \A m \in Models :
             Executes(m) =>
                 ((Len(trades') = Len(trades) + 1) <=>
                      (/\ last_result'[m].error = ""
                       /\ last_result'[m].signal \in
                              {"buy_to_enter", "sell_to_enter", "close_position"}))
       /\ (\A m \in Models : ~Executes(m)) => trades' = trades]_vars

\* A third trade has just been appended behind two earlier ones.
C25_Witness ==
    \E m \in engines :
        /\ pc[m] = "appended"
        /\ last_result[m].error = ""
        /\ last_result[m].signal \in {"buy_to_enter", "close_position"}
        /\ Len(trades) = 3
        /\ trades[3].signal = last_result[m].signal
        /\ trades[3].quantity = last_result[m].quantity

\* A hold has just been processed with a trade on record, which stays.
C25_HoldAppendsNothing ==
    \E m \in engines :
        /\ pc[m] = "appended"
        /\ last_result[m].signal = "hold"
        /\ last_result[m].error = ""
        /\ Len(trades) = 1

LocalState(m) ==
    <<pc[m], market_state[m], snapshot[m], last_decision[m], last_result[m],
      cycle_result[m], executed[m], calls[m]>>

\* A step of the engine of model a.
StepOf(a) == LocalState(a)' # LocalState(a)

PriceMapsOf(m) == [Instruments(m) -> {R(16), R(24)}]

\* quantity x avgPrice / leverage, summed over a set of positions.
RECURSIVE SumOfMargins(_)
SumOfMargins(S) ==
    IF S = {} THEN R(0)
    ELSE LET p == CHOOSE x \in S : TRUE
         IN  RAdd(RDiv(RMul(p.quantity, p.avg_price), R(p.leverage)),
                  SumOfMargins(S \ {p}))

\* C28: every portfolio snapshot has total_value = initial_capital +
\* realized_pnl + unrealized_pnl and cash = initial_capital + realized_pnl -
\* margin_used, where margin_used is the sum over the open positions of
\* quantity x avgPrice / leverage.
C28_SnapshotIdentities ==
    \A m \in engines : \A px \in PriceMapsOf(m) :
        \A pf \in {get_portfolio(positions, trades, m, px)} :
            LET capital == R(initial_capital(m))
            IN  /\ pf.total_value =
                      RAdd(RAdd(capital, pf.realized_pnl), pf.unrealized_pnl)
                /\ pf.cash = RSub(RAdd(capital, pf.realized_pnl), pf.margin_used)
                /\ pf.margin_used = SumOfMargins(pf.positions)

\* A model holds a position with leverage 2 and has a snapshot whose
\* unrealized P&L is not zero.
C28_Witness ==
    \E m \in engines : \E px \in PriceMapsOf(m) :
        LET pf == get_portfolio(positions, trades, m, px)
        IN  /\ \E p \in pf.positions : p.leverage = 2
            /\ pf.unrealized_pnl # R(0)
            /\ pf.margin_used # R(0)

\* C29: in an equities close the settlement lock is checked before the price
\* limits: in an open session, the close of the whole of a position that is
\* still locked is rejected as settlement-locked (T+1), also when the
\* proposed price is outside the price-limit band.
C29_LockCheckedBeforeLimits ==
    [][\A m \in Models :
          (/\ MarketType(m) = "a_share"
           /\ Executes(m)
           /\ get_market_status("a_share", now)
           /\ last_decision'[m].decision.signal = "close_position"
           /\ last_decision'[m].decision.leverage = 1
           /\ last_decision'[m].decision.quantity = None) =>
              \A p \in HeldByDecision(m) :
                  DayOf(now) < p.next_sellable_date =>
                      last_result'[m].error = "T+1 rule"]_vars

\* The close of a locked position at a price above the limit-up has just
\* been rejected, with the price-limit error.
C29_LockedCloseGetsLimitError ==
    \E m \in engines :
        /\ pc[m] = "appended"
        /\ last_decision[m].decision.signal = "close_position"
        /\ last_decision[m].decision.price = R(24)
        /\ last_result[m].error = LimitUpError
        /\ \E p \in positions :
              /\ p.model_id = m
              /\ p.coin = last_decision[m].coin
              /\ DayOf(now) < p.next_sellable_date

OnSide(pos, m, coin, side) ==
    {p \in pos : p.model_id = m /\ p.coin = coin /\ p.side = side}

OppositeSide(side) == IF side = "long" THEN "short" ELSE "long"

\* The side a close decision names: long when it gives none.
NamedSide(d) == IF d.side = "" THEN "long" ELSE d.side

\* C31: a crypto close_position closes the position on the side named by the
\* decision when one exists (long when no side is given); only when no
\* position exists on that side does it close the position on the opposite
\* side; when neither exists it is rejected as position-not-found and nothing
\* changes.
C31_CloseResolvesSide ==
    [][\A m \in Models :
          (/\ MarketType(m) = "crypto"
           /\ Executes(m)
           /\ last_decision'[m].decision.signal = "close_position") =>
              LET coin == last_decision'[m].coin
                  named == NamedSide(last_decision'[m].decision)
                  mine == OnSide(positions, m, coin, named)
                  other == OnSide(positions, m, coin, OppositeSide(named))
                  closed == IF mine # {} THEN mine ELSE other
              IN  IF closed = {}
                  THEN /\ last_result'[m].error = "Position not found"
                       /\ positions' = positions
                       /\ trades' = trades
                  ELSE /\ last_result'[m].error = ""
                       /\ positions' = positions \ closed
                       /\ Commits(m)
                       /\ IsClose(CommittedTrade)
                       /\ CommittedTrade.coin = coin
                       /\ \A p \in closed : CommittedTrade.side = p.side]_vars

\* A model that held a long and a short position in one instrument has just
\* closed the short one, which its decision named, and still holds the long.
C31_Witness ==
    \E m \in engines :
        /\ MarketType(m) = "crypto"
        /\ pc[m] = "appended"
        /\ last_decision[m].decision.signal = "close_position"
        /\ last_decision[m].decision.side = "short"
        /\ last_result[m].error = ""
        /\ trades[Len(trades)].side = "short"
        /\ OnSide(positions, m, last_decision[m].coin, "long") # {}
        /\ OnSide(positions, m, last_decision[m].coin, "short") = {}

\* A close that named no side has just closed the short position of a model
\* that held no long one.
C31_FallsBackToOpposite ==
    \E m \in engines :
        /\ MarketType(m) = "crypto"
        /\ pc[m] = "appended"
        /\ last_decision[m].decision.signal = "close_position"
        /\ last_decision[m].decision.side = ""
        /\ last_result[m].error = ""
        /\ trades[Len(trades)].side = "short"
        /\ Len(trades) = 2

\* The gross P&L of committed trade t of model m: that of the position it
\* closes, nothing for an entry.
GrossOf(m, t) ==
    IF IsClose(t)
    THEN LET p == CHOOSE p \in RowOf(positions, m, t) : TRUE
         IN  GrossPnl(t.side, p.avg_price, t.price, t.quantity)
    ELSE R(0)

\* C32: every fee is charged against the portfolio exactly once: total_value
\* is initial_capital + (the gross P&L of all closes) - fees_paid +
\* unrealized_pnl, fees_paid being the sum of the fee of every trade record.
\* With no trade total_value is initial_capital + unrealized_pnl and fees_paid
\* is zero; every committed trade adds its gross P&L less its fee to
\* total_value - unrealized_pnl and its fee to fees_paid.
C32_FeesChargedOnce ==
    [][\A m \in engines : \A px \in PriceMapsOf(m) :
          /\ trades = <<>> =>
                \A pf \in {get_portfolio(positions, trades, m, px)} :
                    /\ pf.total_value = RAdd(R(initial_capital(m)), pf.unrealized_pnl)
                    /\ pf.fees_paid = R(0)
          /\ Commits(m) =>
                \A t \in {CommittedTrade} :
                \A old \in {get_portfolio(positions, trades, m, px)} :
                \A new \in {get_portfolio(positions', trades', m, px)} :
                    /\ RowOf(positions, m, t) # {} \/ ~IsClose(t)
                    /\ RSub(new.total_value, new.unrealized_pnl) =
                          RAdd(RSub(old.total_value, old.unrealized_pnl),
                               RSub(GrossOf(m, t), t.fee))
                    /\ new.fees_paid = RAdd(old.fees_paid, t.fee)]_vars

\* An equities position was bought, sold in part and sold out at another
\* price: three fees have been paid and two closes have booked a gross P&L.
C32_Witness ==
    /\ Len(trades) = 3
    /\ trades[1].signal = "buy_to_enter"
    /\ IsClose(trades[2])
    /\ IsClose(trades[3])
    /\ MarketType(trades[3].model_id) = "a_share"
    /\ trades[3].price # trades[1].price
    /\ RLt(trades[2].quantity, trades[1].quantity)
    /\ \A i \in 1..3 : RLt(R(0), trades[i].fee)
    /\ positions = {}

\* A crypto position entered with leverage 2 has been closed at another
\* price and a new one is open.
C32_CryptoWitness ==
    /\ Len(trades) = 2
    /\ MarketType(trades[1].model_id) = "crypto"
    /\ IsEntry(trades[1])
    /\ trades[1].leverage = 2
    /\ IsClose(trades[2])
    /\ trades[2].price # trades[1].price

\* C33: whenever an instrument's execution result carries an error, the
\* stored positions and trade records are what they were before that
\* instrument was processed: no position mutation is persisted without its
\* trade record, nor the reverse, also when a persistence call fails between
\* the two writes.
C33_ErrorResultsChangeNothing ==
    [][\A m \in Models :
          (Executes(m) /\ last_result'[m].error # "") =>
              /\ positions' = positions
              /\ trades' = trades]_vars

\* A buy whose add_trade raised has left a position of a model that has no
\* trade record at all, and the instrument's result carries the error.
C33_PositionWithoutTrade ==
    \E m \in engines :
        /\ pc[m] = "appended"
        /\ last_decision[m].decision.signal = "buy_to_enter"
        /\ last_result[m].error = WriteError
        /\ TradesOf(trades, m) = <<>>
        /\ \E p \in positions : p.model_id = m /\ p.side = "long"

\* C34: when two trading cycles for the same model interleave (the scheduler
\* loop and the manual execute endpoint invoke the same engine), an entry is
\* never committed unless the cash at commit time covers its cost, notional
\* and fee, so entries never drive the model's cash below zero.
C34_EntriesCoveredByCash ==
    [][\A m \in Models :
          (Commits(m) /\ IsEntry(CommittedTrade)) =>
              /\ RLe(RAdd(Notional(CommittedTrade), CommittedTrade.fee),
                     Cash(positions, trades, m))
              /\ RLe(R(0), Cash(positions', trades', m))]_vars

\* Both callers of the engine of model 5 have bought: the model's cash is
\* below zero.
C34_CashBelowZero ==
    /\ engines = {5, 6}
    /\ Len(trades) = 2
    /\ \A i \in 1..2 : trades[i].signal = "buy_to_enter" /\ trades[i].model_id = 5
    /\ RLt(Cash(positions, trades, 5), R(0))

\* C35: a committed crypto close_position always liquidates the entire open
\* position on the resolved side: the closed quantity equals the position's
\* full quantity and the position row is deleted, whatever quantity (if any)
\* the decision requested.
C35_CryptoCloseLiquidatesAll ==
    [][\A m \in Models :
          (MarketType(m) = "crypto" /\ Commits(m) /\ IsClose(CommittedTrade)) =>
              LET t == CommittedTrade
              IN  /\ Cardinality(RowOf(positions, m, t)) = 1
                  /\ \A p \in RowOf(positions, m, t) : t.quantity = p.quantity
                  /\ RowOf(positions', m, t) = {}
                  /\ positions' = positions \ RowOf(positions, m, t)
                  /\ last_result'[m].quantity = t.quantity]_vars

\* A close that asked for half a unit has just closed the whole unit held and
\* no position is left.
C35_Witness ==
    \E m \in engines :
        /\ MarketType(m) = "crypto"
        /\ pc[m] = "appended"
        /\ last_decision[m].decision.signal = "close_position"
        /\ last_decision[m].decision.quantity = Frac(1, 2)
        /\ last_result[m].error = ""
        /\ last_result[m].quantity = R(1)
        /\ trades[Len(trades)].quantity = R(1)
        /\ positions = {}

\* C36: with a fixed lot configuration, the quantity of every stored equities
\* position is a positive integer multiple of lot_step, after any sequence of
\* accepted buys, partial closes and full closes.
C36_StoredQuantityMultipleOfLotStep ==
    \A p \in positions :
        MarketType(p.model_id) = "a_share" =>
            /\ IsInt(p.quantity)
            /\ p.quantity[1] > 0
            /\ p.quantity[1] % lot_step = 0

\* Two buys and a partial close have left an equities position of three lots.
C36_Witness ==
    /\ Len(trades) = 3
    /\ trades[1].signal = "buy_to_enter"
    /\ trades[2].signal = "buy_to_enter"
    /\ IsClose(trades[3])
    /\ \E p \in positions :
          /\ MarketType(p.model_id) = "a_share"
          /\ p.model_id = trades[3].model_id
          /\ p.quantity = R(3 * lot_step)

C37_CycleEndsWithSuccess ==
    \E m \in engines :
        /\ MarketType(m) = "a_share"
        /\ pc[m] = "idle"
        /\ ~get_market_status("a_share", now)
        /\ cycle_result[m] = "success"
        /\ calls[m].account_value = 1

\* C38: at every moment there is at most one stored position per (model,
\* instrument, market, side); an entry on a side that has a position updates
\* the single existing row and creates no second one, while a crypto model
\* may hold one long and one short position in the same instrument at once.
C38_OnePositionPerKey ==
    [][/\ \A p, q \in positions' :
             SameKey(q, p.model_id, p.coin, p.market_type, p.side) => p = q
       /\ \A m \in Models :
             (Commits(m) /\ IsEntry(CommittedTrade)) =>
                 /\ Cardinality(RowOf(positions', m, CommittedTrade)) = 1
                 /\ positions' \ RowOf(positions', m, CommittedTrade) =
                       positions \ RowOf(positions, m, CommittedTrade)]_vars

\* A crypto model holds a long and a short position in the same instrument.
C38_Witness ==
    \E p, q \in positions :
        /\ MarketType(p.model_id) = "crypto"
        /\ p.model_id = q.model_id
        /\ p.coin = q.coin
        /\ p.side = "long"
        /\ q.side = "short"

\* Two entries on the same side at different prices have left one row.
C38_RepeatedEntryOneRow ==
    /\ Len(trades) = 2
    /\ IsEntry(trades[1])
    /\ trades[2].signal = trades[1].signal
    /\ trades[2].model_id = trades[1].model_id
    /\ trades[2].coin = trades[1].coin
    /\ trades[2].price # trades[1].price
    /\ Cardinality(positions) = 1

\* Every engine has been dealt with in the iteration that ends: skipped and
\* never called, or called exactly once.
IterationComplete ==
    \A m \in engines :
        \/ m \in loop.skipped /\ loop.invoked[m] = 0
        \/ m \notin loop.skipped /\ loop.invoked[m] = 1

\* C39: in each iteration of the scheduler loop every registered engine whose
\* market is open has execute_trading_cycle invoked exactly once and the
\* engines whose market is closed are skipped; an exception or a result with
\* success false for one model does not keep the remaining models from being
\* processed in the same iteration, and the loop goes on to the next
\* iteration.
C39_LoopVisitsEveryEngine ==
    /\ [][/\ (loop.pc = "iterating" /\ loop'.pc = "sleeping") => IterationComplete
          /\ \A m \in Models :
                /\ loop'.invoked[m] > loop.invoked[m] =>
                      /\ get_market_status(MarketType(m), now)
                      /\ loop'.invoked[m] = 1
                /\ (m \in loop'.skipped /\ m \notin loop.skipped) =>
                      ~get_market_status(MarketType(m), now)
                /\ (pc[m] = "idle" /\ (pc'[m] # "idle" \/ calls'[m] # calls[m])) =>
                      /\ loop.pc = "calling"
                      /\ loop.current = m
                      /\ loop.invoked[m] = 1
                      /\ cycle_result[m] = "none"
                /\ (loop.pc = "calling" /\ loop.current = m /\ loop'.pc # "calling") =>
                      /\ loop'.pc = "iterating"
                      /\ loop'.pending = Tail(loop.pending)
                      /\ loop'.outcome[m] \in {"success", "market_closed", "failed",
                                                "exception"}]_vars
    /\ \A k \in 1..(MaxIterations - 1) :
          (loop.iteration = k) ~> (loop.pc = "sleeping" /\ loop.iteration = k)
    /\ \A k \in 1..(MaxIterations - 1) :
          (loop.iteration = k) ~> (loop.iteration = k + 1)

\* An iteration has ended in which the cycle of the first engine failed and
\* the second engine was called once all the same.
C39_Witness ==
    /\ loop.pc = "sleeping"
    /\ loop.iteration = 1
    /\ \E a, b \in engines :
          /\ loop.outcome[a] \in {"failed", "exception"}
          /\ loop.invoked[a] = 1
          /\ loop.invoked[b] = 1
          /\ loop.outcome[b] = "success"
          /\ loop.skipped = {}

\* A second iteration has ended in which the A-share engine was skipped, its
\* market being closed, and the crypto engine was called.
C39_ClosedEngineSkipped ==
    /\ loop.pc = "sleeping"
    /\ loop.iteration = 2
    /\ loop.skipped = {2}
    /\ loop.invoked[2] = 0
    /\ loop.invoked[1] = 1

\* C40: next_trading_day for the equities market terminates and returns the
\* earliest equities trading day strictly after the given date (no trading
\* day lies strictly between the date and the result), so that
\* next_sellable_date of a buy is strictly later than the date of the buy.
C40_NextTradingDayIsEarliestLater ==
    /\ [](calendar_call.market_type = "a_share" =>
            /\ calendar_call.from_date <= calendar_call.current
            /\ \A y \in (calendar_call.from_date + 1)..(calendar_call.current - 1) :
                  ~is_a_share_trading_day(y)
            /\ calendar_call.returned # NoDate =>
                  /\ calendar_call.returned = calendar_call.current
                  /\ calendar_call.from_date < calendar_call.returned
                  /\ is_a_share_trading_day(calendar_call.returned)
                  /\ calendar_call.returned =
                        next_trading_day("a_share", calendar_call.from_date)
                  /\ calendar_call.from_date <
                        next_sellable_date("a_share", calendar_call.from_date))
    /\ <>(calendar_call.returned # NoDate)

\* The search started on the last day before the October holidays has gone
\* past five holidays and a weekend and returned the day after them.
C40_Witness ==
    /\ calendar_call.market_type = "a_share"
    /\ calendar_call.from_date = 159
    /\ calendar_call.returned = 167

\* The search started on a Saturday has returned the Sunday after it, a
\* compensatory workday.
C40_CompensatoryWorkdayReturned ==
    /\ calendar_call.market_type = "a_share"
    /\ calendar_call.from_date = 2
    /\ calendar_call.returned = 3

====
